---- MODULE Spec2Model ----
(***************************************************************************)
(* Entity consolidation (src/src/consolidator.py) and entity bridging      *)
(* (src/src/bridger.py, src/src/bridger_bulk.py) of the IC design          *)
(* knowledge graph.                                                        *)
(*                                                                         *)
(* Strings are sequences of one-character strings.  Scores are Python      *)
(* floats in the source; here they are exact rationals held as integers    *)
(* in units of 1/ScoreScale.                                               *)
(***************************************************************************)
EXTENDS Integers, Sequences, FiniteSets, Bags, TLC

\* ------------------------------------------------------------------------
\* Bounds of the model
\* ------------------------------------------------------------------------
MaxCands == 2
MaxRuns == 2

\* ------------------------------------------------------------------------
\* Generic helpers on sequences and sets
\* ------------------------------------------------------------------------
Min2(a, b) == IF a <= b THEN a ELSE b
Max2(a, b) == IF a >= b THEN a ELSE b

Range(s) == {s[i] : i \in 1..Len(s)}

RECURSIVE SeqsNoDup(_, _)
\* all sequences without repetition, of length at most n, over the set S
SeqsNoDup(S, n) ==
    IF n = 0 \/ S = {} THEN {<<>>}
    ELSE {<<>>} \cup UNION {{<<x>> \o t : t \in SeqsNoDup(S \ {x}, n - 1)} : x \in S}

\* ------------------------------------------------------------------------
\* Strings
\* ------------------------------------------------------------------------
Whitespace == {" ", "\t", "\n"}

\* str.lower(), LOWER(): on the letters the model uses
LowerChar(c) ==
    CASE c = "A" -> "a" [] c = "B" -> "b" [] c = "L" -> "l" [] c = "N" -> "n"
      [] c = "O" -> "o" [] c = "R" -> "r" [] c = "U" -> "u" [] c = "X" -> "x"
      [] OTHER -> c

Lower(s) == [i \in 1..Len(s) |-> LowerChar(s[i])]

StartsWith(s, p) == Len(p) <= Len(s) /\ SubSeq(s, 1, Len(p)) = p

\* Python's `sub in s`; the empty string is in every string
Contains(s, sub) ==
    \E i \in 1..(Len(s) - Len(sub) + 1) : SubSeq(s, i, i + Len(sub) - 1) = sub

RECURSIVE LStrip(_)
LStrip(s) == IF s # <<>> /\ s[1] \in Whitespace THEN LStrip(Tail(s)) ELSE s

RECURSIVE RStrip(_)
RStrip(s) ==
    IF s # <<>> /\ s[Len(s)] \in Whitespace THEN RStrip(SubSeq(s, 1, Len(s) - 1)) ELSE s

\* str.strip(), TRIM()
Strip(s) == RStrip(LStrip(s))

\* str.replace(old, new) for single characters
ReplaceChar(s, old, new) == [i \in 1..Len(s) |-> IF s[i] = old THEN new ELSE s[i]]

\* s.split(c)[-1]
AfterLast(s, c) ==
    IF \E i \in 1..Len(s) : s[i] = c
    THEN LET i == CHOOSE k \in 1..Len(s) : s[k] = c /\ \A j \in (k + 1)..Len(s) : s[j] # c
         IN SubSeq(s, i + 1, Len(s))
    ELSE s

RECURSIVE SplitAcc(_, _, _)
\* str.split(): the non-empty maximal runs of non-whitespace, in order
SplitAcc(s, cur, acc) ==
    IF s = <<>> THEN (IF cur = <<>> THEN acc ELSE Append(acc, cur))
    ELSE IF s[1] \in Whitespace
         THEN SplitAcc(Tail(s), <<>>, IF cur = <<>> THEN acc ELSE Append(acc, cur))
         ELSE SplitAcc(Tail(s), Append(cur, s[1]), acc)

Split(s) == SplitAcc(s, <<>>, <<>>)

Or1200Prefix == <<"o", "r", "1", "2", "0", "0", "_">>

\* the normalization without the lowercasing
normalize_keeping_case(name) ==
    IF name = <<>> THEN <<>>
    ELSE LET s1 == IF StartsWith(name, Or1200Prefix)
                   THEN SubSeq(name, Len(Or1200Prefix) + 1, Len(name)) ELSE name
             s2 == IF \E i \in 1..Len(s1) : s1[i] = "." THEN AfterLast(s1, ".") ELSE s1
         IN Strip(ReplaceChar(s2, "_", " "))

normalize_hardware_name(name) ==
    IF name = <<>> THEN <<>>
    ELSE LET s0 == Lower(name)
             s1 == IF StartsWith(s0, Or1200Prefix)
                   THEN SubSeq(s0, Len(Or1200Prefix) + 1, Len(s0)) ELSE s0
             s2 == IF \E i \in 1..Len(s1) : s1[i] = "." THEN AfterLast(s1, ".") ELSE s1
         IN Strip(ReplaceChar(s2, "_", " "))

\* --- Levenshtein distance (LEVENSHTEIN_DISTANCE), row by row -------------
RECURSIVE LevRow(_, _, _, _)
\* the row of character ca, from the previous row prev, built left to right
LevRow(prev, ca, b, row) ==
    IF Len(row) = Len(b) + 1 THEN row
    ELSE LET j == Len(row)
             sub == prev[j] + (IF ca = b[j] THEN 0 ELSE 1)
             v == Min2(Min2(prev[j + 1] + 1, row[j] + 1), sub)
         IN LevRow(prev, ca, b, Append(row, v))

RECURSIVE LevRows(_, _, _)
LevRows(a, b, prev) ==
    IF a = <<>> THEN prev[Len(b) + 1]
    ELSE LevRows(Tail(a), b, LevRow(prev, a[1], b, <<prev[1] + 1>>))

Levenshtein(a, b) == LevRows(a, b, [j \in 1..(Len(b) + 1) |-> j - 1])

\* ------------------------------------------------------------------------
\* Scores
\* ------------------------------------------------------------------------
ScoreScale == 1000000

\* n hundredths as a score
Pct(n) == n * (ScoreScale \div 100)

\* ------------------------------------------------------------------------
\* Collections and the type compatibility matrix
\* ------------------------------------------------------------------------
COL_MODULE == "RTL_Module"
COL_PORT == "RTL_Port"
COL_SIGNAL == "RTL_Signal"
COL_LOGIC == "RTL_LogicChunk"
COL_BUS == "BusInterface"
COL_CLOCK == "ClockDomain"
COL_FSM == "FSM_StateMachine"
COL_PARAMETER == "RTL_Parameter"
COL_MEMORY == "RTL_Memory"

\* Python's None, AQL's null
None == "None"

TYPE_COMPATIBILITY ==
    [c \in {COL_MODULE, COL_PORT, COL_SIGNAL, COL_LOGIC, COL_BUS, COL_CLOCK, COL_FSM,
            COL_PARAMETER, COL_MEMORY} |->
        CASE c = COL_MODULE -> {"processor_component", "architecture_feature", "memory_unit",
                                "hardware_interface", "configuration", "UNKNOWN", None}
          [] c = COL_PORT -> {"register", "signal", "hardware_interface",
                              "architecture_feature", "UNKNOWN", None}
          [] c = COL_SIGNAL -> {"register", "signal", "architecture_feature", "UNKNOWN", None}
          [] c = COL_LOGIC -> {"instruction", "architecture_feature", "configuration",
                               "exception_type", "UNKNOWN", None}
          [] c = COL_BUS -> {"hardware_interface", "bus_protocol", "architecture_feature",
                             "processor_component", "UNKNOWN", None}
          [] c = COL_CLOCK -> {"architecture_feature", "clock_domain", "processor_component",
                               "UNKNOWN", None}
          [] c = COL_FSM -> {"architecture_feature", "state_machine", "processor_component",
                             "UNKNOWN", None}
          [] c = COL_PARAMETER -> {"configuration", "UNKNOWN", None}
          [] c = COL_MEMORY -> {"memory_unit", "processor_component", "UNKNOWN", None}]

\* TYPE_COMPATIBILITY.get(source_col, set())
CompatibleTypes(col) ==
    IF col \in DOMAIN TYPE_COMPATIBILITY THEN TYPE_COMPATIBILITY[col] ELSE {}

\* ------------------------------------------------------------------------
\* The golden entities the bridging engine reads (the search collaborator's
\* documents): id, entity_name, entity_type, description (as its words)
\* ------------------------------------------------------------------------
GoldenDocs ==
    { [id |-> "G1", entity_name |-> <<"A", "L", "U">>, entity_type |-> "processor_component",
       description |-> <<"alu", "unit">>],
      [id |-> "G2", entity_name |-> <<"a", "l", "u", " ", "o", "p">>, entity_type |-> "register",
       description |-> <<>>],
      [id |-> "G3", entity_name |-> <<"a", "l", "u">>, entity_type |-> "instruction",
       description |-> <<"alu">>],
      [id |-> "G4", entity_name |-> <<>>, entity_type |-> None,
       description |-> <<"bus">>] }

GoldenIds == {d.id : d \in GoldenDocs}

DocOf(id) == CHOOSE d \in GoldenDocs : d.id = id

\* Golden_Relations edges between the golden entities, as <<_from, _to>>
GoldenRelations == { <<"G1", "G2">> }

\* ------------------------------------------------------------------------
\* The structural elements: _id is <<collection, _key>>, _key is the list of
\* its '.'-separated parts (_key.split('.')), summary is metadata.summary as
\* its words
\* ------------------------------------------------------------------------
Elem(col, key, label, name, expanded, itype, summary) ==
    [col |-> col, key |-> key, label |-> label, name |-> name,
     expanded_name |-> expanded, interface_type |-> itype, summary |-> summary]

KeyAlu == Or1200Prefix \o <<"a", "l", "u">>

ItemBus == Elem(COL_BUS, << <<"w", "b">> >>, <<>>, <<"w", "b">>, <<>>, <<"A", "L", "U">>, <<>>)
ItemModule == Elem(COL_MODULE, <<KeyAlu>>, KeyAlu, <<>>, <<>>, <<>>, <<"alu", "unit">>)
ItemPortOp ==
    Elem(COL_PORT, <<KeyAlu, <<"o", "p">> >>, <<"o", "p">>, <<>>, <<"a", "l", "u">>, <<>>, <<>>)
ItemPortX == Elem(COL_PORT, <<KeyAlu, <<"x">> >>, <<"x">>, <<>>, <<>>, <<>>, <<>>)
ItemSignal == Elem(COL_SIGNAL, <<KeyAlu, <<"a", "l">> >>, <<"A", "L">>, <<>>, <<>>, <<>>, <<>>)
\* a signal whose label has no lexical relation to any entity name
ItemSignalNo == Elem(COL_SIGNAL, <<KeyAlu, <<"n", "o">> >>, <<"n", "o">>, <<>>, <<>>, <<>>, <<>>)
\* a second bus interface, named after the unit itself
ItemBusAlu == Elem(COL_BUS, << <<"a", "l", "u">> >>, <<>>, <<"a", "l", "u">>, <<>>, <<>>, <<>>)
ItemNoLabel == Elem(COL_SIGNAL, << <<"t", "o", "p">> >>, <<>>, <<>>, <<>>, <<>>, <<>>)

ItemId(item) == <<item.col, item.key>>

\* ------------------------------------------------------------------------
\* bridger.py: get_related_entities, calculate_token_overlap
\* ------------------------------------------------------------------------
\* FOR v, e, p IN 1..2 ANY parent_id Golden_Relations RETURN DISTINCT v._id
\* (an edge is used at most once on a path)
Traverse(parents, rels) ==
    LET Other(e, v) == IF e[1] = v THEN e[2] ELSE e[1]
        Touches(e, v) == e[1] = v \/ e[2] = v
        D1(p) == {Other(e, p) : e \in {r \in rels : Touches(r, p)}}
        D2(p) == UNION {{Other(f, Other(e, p)) :
                            f \in {r \in rels : r # e /\ Touches(r, Other(e, p))}} :
                        e \in {r \in rels : Touches(r, p)}}
    IN UNION {D1(p) \cup D2(p) : p \in parents}

\* A query's answer is <<"ok", result>>, or <<"raise">> when it raises
Ok(result) == <<"ok", result>>
Raise == <<"raise">>

\* the failure of the traversal answered with an empty neighbourhood
related_or_nothing(parent_entity_ids, answer) ==
    IF parent_entity_ids = <<>> \/ answer = Raise THEN {}
    ELSE answer[2] \cup Range(parent_entity_ids)

\* `answer` is the answer of the traversal query
get_related_entities(parent_entity_ids, answer) ==
    IF parent_entity_ids = <<>> THEN {}
    ELSE IF answer = Raise THEN Range(parent_entity_ids)
    ELSE answer[2] \cup Range(parent_entity_ids)

StopWords ==
    {"the", "a", "an", "is", "are", "of", "in", "to", "for", "and", "or", "be", "with",
     "on", "at", "by", "this", "that", "it"}

\* A text is a list of pieces separated by whitespace: words, written in
\* some letter case, and pieces of punctuation.
\* text.lower(), piece by piece
LowerWord(w) ==
    CASE w = "ALU" -> "alu"
      [] w = "The" -> "the"
      [] OTHER -> w

\* re.findall(r'\w+', ...) keeps the words and drops the punctuation
IsWord(w) == w \notin {"-", "..."}

\* set(re.findall(r'\w+', text.lower()))
Tokenize(text) == {LowerWord(w) : w \in {v \in Range(text) : IsWord(v)}}

\* the overlap divided by the size of the first token set
overlap_of_first(text1, text2) ==
    IF text1 = <<>> \/ text2 = <<>> THEN 0
    ELSE LET tokens1 == Tokenize(text1) \ StopWords
             tokens2 == Tokenize(text2) \ StopWords
         IN IF tokens1 = {} \/ tokens2 = {} THEN 0
            ELSE (ScoreScale * Cardinality(tokens1 \cap tokens2)) \div Cardinality(tokens1)

\* the result is a score; a None text and an empty text are both <<>>
calculate_token_overlap(text1, text2) ==
    IF text1 = <<>> \/ text2 = <<>> THEN 0
    ELSE LET tokens1 == Tokenize(text1) \ StopWords
             tokens2 == Tokenize(text2) \ StopWords
             min_len == Min2(Cardinality(tokens1), Cardinality(tokens2))
         IN IF tokens1 = {} \/ tokens2 = {} THEN 0
            ELSE (ScoreScale * Cardinality(tokens1 \cap tokens2)) \div min_len

\* ------------------------------------------------------------------------
\* bridger.py: process_item_to_entity
\* ------------------------------------------------------------------------
\* item.get("label") or item.get("name", "")
LabelOf(item) == IF item.label # <<>> THEN item.label ELSE item.name

\* search_terms: the normalized label, then the expanded name, then the
\* interface type, each only when non-empty and new
SearchTerms(item) ==
    LET search_term == normalize_hardware_name(LabelOf(item))
        expanded == normalize_hardware_name(item.expanded_name)
        t1 == IF item.expanded_name # <<>> /\ expanded # <<>> /\ expanded # search_term
              THEN <<search_term, expanded>> ELSE <<search_term>>
        iface == normalize_hardware_name(item.interface_type)
    IN IF item.interface_type # <<>> /\ iface # <<>> /\ iface \notin Range(t1)
       THEN Append(t1, iface) ELSE t1

\* the early return for a missing label alone
SkipsItemWithoutLabel(item) == LabelOf(item) = <<>>

\* the early returns before any query: no label, or a normalized label
\* shorter than 2 characters
SkipsItem(item) ==
    \/ LabelOf(item) = <<>>
    \/ Len(normalize_hardware_name(LabelOf(item))) < 2

\* the candidate query without its type pre-filter
TypeFilterDropped(col, doc) == TRUE

\* FILTER doc.entity_type IN @compatible_types
TypeFilter(col, doc) == doc.entity_type \in CompatibleTypes(col)

SearchLimit == 10

\* The answers the candidate query may give: the ranked search index is an
\* external collaborator, so any ranking of any type-compatible entities,
\* cut at LIMIT (and at MaxCands in the model)
CandidateAnswers(item, docs) ==
    SeqsNoDup({d \in docs : TypeFilter(item.col, d)}, Min2(SearchLimit, MaxCands))

\* the floor put in place of the base score instead of max(base, floor)
LexicalStepFloorOnly(search_terms, n_cand, score) ==
    LET TokSubset(s) == \/ Range(Split(s)) \subseteq Range(Split(n_cand))
                        \/ Range(Split(n_cand)) \subseteq Range(Split(s))
        exact == \E i \in 1..Len(search_terms) : search_terms[i] = n_cand
        subset == \E i \in 1..Len(search_terms) : TokSubset(search_terms[i])
        substr == \E i \in 1..Len(search_terms) :
                      Contains(n_cand, search_terms[i]) \/ Contains(search_terms[i], n_cand)
    IN IF exact THEN Pct(95) ELSE IF subset THEN Pct(85) ELSE IF substr THEN Pct(80) ELSE score

\* "Lexical Boost (capped)": the score after the lexical step
LexicalStep(search_terms, n_cand, score) ==
    LET TokSubset(s) == \/ Range(Split(s)) \subseteq Range(Split(n_cand))
                        \/ Range(Split(n_cand)) \subseteq Range(Split(s))
        lexical_match == \E i \in 1..Len(search_terms) :
                             search_terms[i] = n_cand \/ TokSubset(search_terms[i])
        exact == \E i \in 1..Len(search_terms) : search_terms[i] = n_cand
        substr == \E i \in 1..Len(search_terms) :
                      Contains(n_cand, search_terms[i]) \/ Contains(search_terms[i], n_cand)
    IN IF lexical_match THEN Max2(score, IF exact THEN Pct(95) ELSE Pct(85))
       ELSE IF substr THEN Max2(score, Pct(80))
       ELSE score

\* "Context Weighting": blend with the overlap of the module summary and
\* the candidate's description
ContextStep(score, context_summary, cand_desc) ==
    IF context_summary = <<>> THEN score
    ELSE LET overlap == calculate_token_overlap(context_summary, cand_desc)
         IN IF overlap > 0 THEN (score * 7 + overlap * 3) \div 10
            ELSE (score * 9) \div 10

\* the boost without its cap at 1.0
GraphStepUncapped(score, related_entities, cand_id) ==
    IF related_entities # {} /\ cand_id \in related_entities THEN (score * 120) \div 100
    ELSE IF related_entities # {} THEN (score * 95) \div 100
    ELSE score

\* "Graph-Aware Context Boost"
GraphStep(score, related_entities, cand_id) ==
    IF related_entities # {} /\ cand_id \in related_entities
    THEN Min2(ScoreScale, (score * 120) \div 100)
    ELSE IF related_entities # {} THEN (score * 95) \div 100
    ELSE score

\* the flag set whenever there is parent context at all
GraphAwareFlagAnyContext(related_entities, cand_id) == related_entities # {}

\* "graph_aware": bool(related_entities and cand["_id"] in related_entities)
GraphAwareFlag(related_entities, cand_id) ==
    related_entities # {} /\ cand_id \in related_entities

\* One record per candidate of the scoring loop, in candidate order.
\* er[id] is the value SIMILARITY.compute returns for the candidate.
ScoreLoop(item, candidates, er, context_summary, related_entities) ==
    [i \in 1..Len(candidates) |->
        LET cand == candidates[i]
            n_cand == normalize_hardware_name(cand.entity_name)
            lexical == LexicalStep(SearchTerms(item), n_cand, er[cand.id])
            pre == ContextStep(lexical, context_summary, cand.description)
        IN [to |-> cand.id, er_score |-> er[cand.id], lexical |-> lexical, pre |-> pre,
            in_related |-> cand.id \in related_entities,
            score |-> GraphStep(pre, related_entities, cand.id),
            graph_aware |-> GraphAwareFlag(related_entities, cand.id)]]

\* matches.sort(key=score, reverse=True)[0]: the sort is stable, so the
\* first of the candidates with the highest score
BestMatch(matches) ==
    LET best == CHOOSE i \in 1..Len(matches) :
                    /\ \A j \in 1..Len(matches) : matches[j].score <= matches[i].score
                    /\ \A j \in 1..(i - 1) : matches[j].score < matches[i].score
    IN matches[best]

\* the comparison taken as "at least the threshold"
AtLeastThreshold(score, threshold) == score >= threshold

\* if final_score > threshold
OverThreshold(score, threshold) == score > threshold

\* The list process_item_to_entity returns: <<>> or one edge.
\*   candidates: the answer of the candidate query
\*   related: related_entities, what get_related_entities returned (the
\*   empty set when parent_entity_ids is None or empty)
\*   context: context_summary
process_item_to_entity(item, candidates, er, threshold, method, context, related) ==
    IF SkipsItem(item) THEN <<>>
    ELSE LET loop == ScoreLoop(item, candidates, er, context, related)
             matches == SelectSeq(loop, LAMBDA m : OverThreshold(m.score, threshold))
         IN IF matches = <<>> THEN <<>>
            ELSE LET b == BestMatch(matches)
                 IN << [from |-> ItemId(item), to |-> b.to, score |-> b.score,
                        method |-> method, graph_aware |-> b.graph_aware] >>

\* ------------------------------------------------------------------------
\* bridger_bulk.py: the bulk path, one AQL query per collection
\* ------------------------------------------------------------------------
RECURSIVE Substitute(_, _, _)
\* SUBSTITUTE(value, search, replace): every occurrence, left to right
Substitute(value, search, replace) ==
    IF search = <<>> \/ Len(value) < Len(search) THEN value
    ELSE IF SubSeq(value, 1, Len(search)) = search
         THEN replace \o Substitute(SubSeq(value, Len(search) + 1, Len(value)), search, replace)
         ELSE <<value[1]>> \o Substitute(Tail(value), search, replace)

RECURSIVE CollapseWhitespace(_)
\* REGEX_REPLACE(name, '\s+', ' ', true)
CollapseWhitespace(s) ==
    IF s = <<>> THEN <<>>
    ELSE IF s[1] \in Whitespace
         THEN <<" ">> \o CollapseWhitespace(LStrip(s))
         ELSE <<s[1]>> \o CollapseWhitespace(Tail(s))

\* LOWER(TRIM(SUBSTITUTE(SUBSTITUTE(name, '_', ' '),
\*                       REGEX_REPLACE(name, '\s+', ' ', true), ' ')))
normalize_name_aql(name) ==
    Lower(Strip(Substitute(ReplaceChar(name, "_", " "), CollapseWhitespace(name), <<" ">>)))

\* 1.0 - LEVENSHTEIN_DISTANCE(a, b) / MAX([LENGTH(a), LENGTH(b), 1])
approximate_jaro_winkler_aql(str1, str2) ==
    LET m == Max2(Max2(Len(str1), Len(str2)), 1)
    IN (ScoreScale * (m - Levenshtein(str1, str2))) \div m

\* label_field: "name" for the architectural collections, else "label"
BulkLabel(item) ==
    IF item.col \in {COL_BUS, COL_CLOCK, COL_FSM, COL_PARAMETER, COL_MEMORY}
    THEN item.name ELSE item.label

\* graph_boost, in hundredths; related_entities is the traversal's result
\* alone, and only the port and signal collections have the clause
BulkGraphBoost(col, related_entities, cand_id) ==
    IF col \notin {COL_PORT, COL_SIGNAL} THEN 100
    ELSE IF related_entities # {} /\ cand_id \in related_entities THEN 120
    ELSE IF related_entities # {} THEN 95
    ELSE 100

\* the inner subquery: one record per candidate, before FILTER final_score
BulkLoop(item, candidates, related_entities) ==
    [i \in 1..Len(candidates) |->
        LET cand == candidates[i]
            norm_label == normalize_name_aql(BulkLabel(item))
            norm_cand_name == normalize_name_aql(cand.entity_name)
            base_score == approximate_jaro_winkler_aql(norm_label, norm_cand_name)
            is_exact_match == norm_label = norm_cand_name
            is_substring == Contains(norm_cand_name, norm_label)
                            \/ Contains(norm_label, norm_cand_name)
            lexical_boost == IF is_exact_match THEN Pct(95)
                             ELSE IF is_substring THEN Pct(80) ELSE base_score
            score_with_lexical == Max2(base_score, lexical_boost)
            graph_boost == BulkGraphBoost(item.col, related_entities, cand.id)
        IN [to |-> cand.id, base_score |-> base_score,
            score |-> (score_with_lexical * graph_boost) \div 100,
            graph_aware |-> graph_boost > 100]]

\* The edge the bulk query returns for one item: <<>> or one edge.
\*   parent_entities: the RESOLVED_TO targets of the parent module
\*   rels: the Golden_Relations edges the traversal walks
bulk_bridge_item(item, candidates, parent_entities, rels, threshold, method) ==
    IF Len(BulkLabel(item)) < 2 THEN <<>>
    ELSE LET related == IF item.col \in {COL_PORT, COL_SIGNAL} /\ parent_entities # <<>>
                        THEN Traverse(Range(parent_entities), rels) ELSE {}
             loop == BulkLoop(item, candidates, related)
             matches == SelectSeq(loop, LAMBDA m : m.score > threshold)
         IN IF matches = <<>> THEN <<>>
            ELSE LET b == BestMatch(matches)
                 IN << [from |-> ItemId(item), to |-> b.to, score |-> b.score,
                        method |-> method, graph_aware |-> b.graph_aware] >>

\* ========================================================================
\* State
\* ========================================================================
VARIABLES
    \* --- one call of process_item_to_entity, and the bulk query on the
    \* --- same item and candidates
    s_pc,        \* "idle", "start", "retrieved", "raised", "done", "compared"
    s_in,        \* the call's arguments
    s_calls,     \* the queries issued so far: candidate queries, traversals
    s_cands,     \* the answer of the candidate query
    s_er,        \* SIMILARITY.compute per candidate id
    s_related,   \* related_entities
    s_loop,      \* the scoring loop's record per candidate
    s_result,    \* the returned list
    s_bulk,      \* the bulk path's edge for the item
    \* --- bridge_all (interactive path) and the RESOLVED_TO collection
    resolved,    \* RESOLVED_TO: a bag of edges (import_bulk gives each its own _key)
    b_run,       \* number of bridge_all runs started
    b_stage,     \* 0: no run in progress, else the index of the running stage
    b_phase,     \* "idle", "fetch", "workers", "unwinding", "aborted"
    b_maps,      \* the pre-fetched module maps of the running stage
    b_fut,       \* the futures of the running stage, in submission order
    b_edges,     \* resolved_edges of the running stage
    b_written,   \* per stage, the edges it inserted in the current run
    \* --- consolidate_entities, consolidate_fuzzy_stage2 and their collections
    c_has_raw,   \* which raw collections exist
    c_raw,       \* the raw entity collection
    c_golden,    \* Golden_Entities
    c_cons,      \* CONSOLIDATES: edges golden -> raw
    c_rels,      \* Golden_Relations
    c_params,    \* levenshtein_distance, min_confidence of the stage-2 calls
    c_pc,        \* "idle", "union", "group", "merge"
    c_cands,     \* candidates of the running stage-2 call
    c_i,         \* index of the next candidate in the running loop
    c_parent,    \* parent of the union-find
    c_groups,    \* merge_groups: the roots in insertion order, and their members
    c_hist,      \* what has run so far
    \* --- one call of a pure function (normalize_hardware_name,
    \* --- calculate_token_overlap)
    f_pc,        \* "idle", "start", then the calls made so far
    f_in,        \* the arguments
    f_out        \* the values returned so far

scoreVars == <<s_pc, s_in, s_calls, s_cands, s_er, s_related, s_loop, s_result, s_bulk>>

bridgeVars == <<resolved, b_run, b_stage, b_phase, b_maps, b_fut, b_edges, b_written>>

consVars ==
    <<c_has_raw, c_raw, c_golden, c_cons, c_rels, c_params, c_pc, c_cands, c_i, c_parent,
      c_groups, c_hist>>

funVars == <<f_pc, f_in, f_out>>

vars == <<scoreVars, bridgeVars, consVars, funVars>>

ScoreIdle ==
    /\ s_pc = "idle" /\ s_in = <<>> /\ s_calls = <<>> /\ s_cands = <<>> /\ s_er = <<>>
    /\ s_related = {} /\ s_loop = <<>> /\ s_result = <<>> /\ s_bulk = <<>>

BridgeIdle ==
    /\ resolved = EmptyBag /\ b_run = 0 /\ b_stage = 0 /\ b_phase = "idle"
    /\ b_maps = <<>> /\ b_fut = <<>> /\ b_edges = <<>> /\ b_written = <<>>

ConsIdle ==
    /\ c_has_raw = <<>> /\ c_raw = {} /\ c_golden = {} /\ c_cons = {} /\ c_rels = {}
    /\ c_params = <<>> /\ c_pc = "idle" /\ c_cands = <<>> /\ c_i = 0 /\ c_parent = <<>>
    /\ c_groups = <<>> /\ c_hist = <<>>

FunIdle == f_pc = "idle" /\ f_in = <<>> /\ f_out = <<>>

\* ========================================================================
\* SpecScore: process_item_to_entity on every input of the bounded sets
\* ========================================================================
ScoreItems ==
    {ItemBus, ItemModule, ItemPortOp, ItemPortX, ItemSignal, ItemSignalNo, ItemNoLabel}

\* values SIMILARITY.compute may return (the library is external)
EROptions == {Pct(40), Pct(75), Pct(100)}

\* the threshold argument: bridge_all's stage thresholds, and 0.80, which
\* a candidate's final score can equal
Thresholds == {Pct(50), Pct(60), Pct(70), Pct(80)}

\* bridge_collection_parallel passes a module summary and parent entity ids
\* only for ports and signals (lines 457-466)
ScoreInputs ==
    {in \in [item : ScoreItems,
             parent_entity_ids : {<<>>, <<"G1">>, <<"G4">>},
             context_summary : {<<>>, <<"alu", "unit">>},
             threshold : Thresholds,
             method : {"m"}] :
        in.item.col \notin {COL_PORT, COL_SIGNAL} =>
            in.parent_entity_ids = <<>> /\ in.context_summary = <<>>}

InitScore ==
    /\ s_pc = "start"
    /\ s_in \in ScoreInputs
    /\ s_calls = [cand |-> 0, trav |-> 0]
    /\ s_cands = <<>> /\ s_er = <<>> /\ s_related = {} /\ s_loop = <<>>
    /\ s_result = <<>> /\ s_bulk = <<>>
    /\ BridgeIdle /\ ConsIdle /\ FunIdle

\* lines 210-226: the early returns
ScoreSkip ==
    /\ s_pc = "start"
    /\ SkipsItem(s_in.item)
    /\ s_pc' = "done"
    /\ s_result' = <<>>
    /\ UNCHANGED <<s_in, s_calls, s_cands, s_er, s_related, s_loop, s_bulk>>
    /\ UNCHANGED <<bridgeVars, consVars, funVars>>

\* lines 261-329: the traversal (only with parent ids) and the candidate
\* query; an exception of the candidate query leaves the function
ScoreRetrieve ==
    /\ s_pc = "start"
    /\ ~SkipsItem(s_in.item)
    /\ \E trav \in {Ok(Traverse(Range(s_in.parent_entity_ids), GoldenRelations)), Raise} :
          s_related' = get_related_entities(s_in.parent_entity_ids, trav)
    /\ \E answer \in {Ok(c) : c \in CandidateAnswers(s_in.item, GoldenDocs)} \cup {Raise} :
          IF answer = Raise
          THEN /\ s_pc' = "raised"
               /\ UNCHANGED <<s_cands, s_er>>
          ELSE /\ s_pc' = "retrieved"
               /\ s_cands' = answer[2]
               /\ s_er' \in [{answer[2][i].id : i \in 1..Len(answer[2])} -> EROptions]
    /\ s_calls' = [cand |-> 1, trav |-> IF s_in.parent_entity_ids # <<>> THEN 1 ELSE 0]
    /\ UNCHANGED <<s_in, s_loop, s_result, s_bulk>>
    /\ UNCHANGED <<bridgeVars, consVars, funVars>>

\* lines 331-410: the scoring loop and the choice of the best match
ScoreCandidates ==
    /\ s_pc = "retrieved"
    /\ s_loop' = ScoreLoop(s_in.item, s_cands, s_er, s_in.context_summary, s_related)
    /\ s_result' = process_item_to_entity(s_in.item, s_cands, s_er, s_in.threshold,
                                          s_in.method, s_in.context_summary, s_related)
    /\ s_pc' = "done"
    /\ UNCHANGED <<s_in, s_calls, s_cands, s_er, s_related, s_bulk>>
    /\ UNCHANGED <<bridgeVars, consVars, funVars>>

\* bridger_bulk.py lines 158-247 on the same item, candidates, parent ids,
\* relations and threshold
ScoreBulk ==
    /\ s_pc = "done"
    /\ s_calls.cand = 1
    /\ s_bulk' = bulk_bridge_item(s_in.item, s_cands, s_in.parent_entity_ids,
                                  GoldenRelations, s_in.threshold, s_in.method)
    /\ s_pc' = "compared"
    /\ UNCHANGED <<s_in, s_calls, s_cands, s_er, s_related, s_loop, s_result>>
    /\ UNCHANGED <<bridgeVars, consVars, funVars>>

NextScore == ScoreSkip \/ ScoreRetrieve \/ ScoreCandidates \/ ScoreBulk

SpecScore == InitScore /\ [][NextScore]_vars

\* ------------------------------------------------------------------------
\* Properties of process_item_to_entity (under SpecScore)
\* ------------------------------------------------------------------------
ScoreFinished == s_pc \in {"done", "compared"}

\* the scoring-loop record of the candidate the returned edge points to
ChosenRecord ==
    LET i == CHOOSE k \in 1..Len(s_loop) : s_loop[k].to = s_result[1].to
    IN s_loop[i]

\* C6: no candidate that reaches the scoring loop, and so no emitted edge,
\* has an entity_type outside the TYPE_COMPATIBILITY set of the element's
\* collection, whatever the names are.
C6_TypeCompatibleOnly ==
    ScoreFinished =>
        /\ \A i \in 1..Len(s_loop) :
              DocOf(s_loop[i].to).entity_type \in TYPE_COMPATIBILITY[s_in.item.col]
        /\ \A i \in 1..Len(s_cands) :
              s_cands[i].entity_type \in TYPE_COMPATIBILITY[s_in.item.col]
        /\ \A i \in 1..Len(s_result) :
              DocOf(s_result[i].to).entity_type \in TYPE_COMPATIBILITY[s_in.item.col]

\* C6 witness: an edge is emitted for an element while an entity with the
\* identical normalized name and an incompatible type exists
C6_Witness ==
    /\ ScoreFinished
    /\ s_result # <<>>
    /\ \E d \in GoldenDocs :
          /\ normalize_hardware_name(d.entity_name)
                = normalize_hardware_name(LabelOf(s_in.item))
          /\ d.entity_type \notin TYPE_COMPATIBILITY[s_in.item.col]

\* C9 as stated: the final score is the score before the graph step times
\* 1.20 inside a non-empty neighbourhood, times 0.95 outside it, and
\* unchanged without a neighbourhood.
C9_GraphFactorExact ==
    ScoreFinished =>
        \A i \in 1..Len(s_loop) :
            LET r == s_loop[i]
            IN /\ (s_related # {} /\ r.to \in s_related) => r.score * 100 = r.pre * 120
               /\ (s_related # {} /\ r.to \notin s_related) => r.score * 100 = r.pre * 95
               /\ s_related = {} => r.score = r.pre

\* C9 amended: inside a non-empty neighbourhood the final score is
\* min(1.0, 1.20 * score before the graph step); outside it the score is
\* multiplied by 0.95; without a neighbourhood it is unchanged.
C9_GraphFactorCapped ==
    ScoreFinished =>
        \A i \in 1..Len(s_loop) :
            LET r == s_loop[i]
            IN /\ (s_related # {} /\ r.to \in s_related) =>
                      /\ r.pre * 120 <= ScoreScale * 100 => r.score * 100 = r.pre * 120
                      /\ r.pre * 120 > ScoreScale * 100 => r.score = ScoreScale
               /\ (s_related # {} /\ r.to \notin s_related) => r.score * 100 = r.pre * 95
               /\ s_related = {} => r.score = r.pre

\* C9 witness: a port with a resolved parent, a candidate inside the
\* neighbourhood scored 1.20 times its score before the graph step, and
\* another candidate whose boosted score was cut at 1.0
C9_Witness ==
    /\ ScoreFinished
    /\ s_in.item.col = COL_PORT
    /\ s_in.parent_entity_ids # <<>>
    /\ \E i \in 1..Len(s_loop) :
          /\ s_loop[i].to \in s_related
          /\ s_loop[i].score * 100 = s_loop[i].pre * 120
          /\ s_loop[i].score < ScoreScale
          /\ s_loop[i].pre > 0

\* C10: the emitted edge has graph_aware = TRUE iff its candidate lies in
\* a non-empty neighbourhood (and then took the 1.20 branch); an edge
\* without parent context or with the 0.95 penalty has graph_aware = FALSE.
C10_GraphAwareIffBoosted ==
    (ScoreFinished /\ s_result # <<>>) =>
        LET e == s_result[1]
            r == ChosenRecord
        IN /\ e.graph_aware <=> (s_related # {} /\ e.to \in s_related)
           /\ e.graph_aware => e.score = Min2(ScoreScale, (r.pre * 120) \div 100)
           /\ s_in.parent_entity_ids = <<>> => ~e.graph_aware
           /\ (s_related # {} /\ e.score * 100 = r.pre * 95 /\ r.pre > 0) => ~e.graph_aware

\* C10 witness: an edge flagged graph_aware whose candidate took the boost
C10_Witness ==
    /\ ScoreFinished
    /\ s_result # <<>>
    /\ s_result[1].graph_aware
    /\ s_result[1].to \in s_related
    /\ s_result[1].score > ChosenRecord.pre

\* the highest final score of the scoring loop (0 without candidates)
MaxScore ==
    IF s_loop = <<>> THEN 0
    ELSE LET i == CHOOSE k \in 1..Len(s_loop) :
                      \A j \in 1..Len(s_loop) : s_loop[j].score <= s_loop[k].score
         IN s_loop[i].score

\* C11: the call returns at most one edge; it returns one iff there is a
\* candidate and the highest final score is strictly greater than the
\* threshold, and the edge then carries that highest score and points to a
\* candidate that has it.
C11_SingleBestOverThreshold ==
    ScoreFinished =>
        /\ Len(s_result) <= 1
        /\ s_result # <<>> <=> (s_loop # <<>> /\ MaxScore > s_in.threshold)
        /\ s_result # <<>> =>
              /\ s_result[1].score = MaxScore
              /\ \E i \in 1..Len(s_loop) :
                    s_loop[i].to = s_result[1].to /\ s_loop[i].score = MaxScore

\* C11 witness: two candidates are over the threshold and the returned
\* edge points to the second, which has the higher score
C11_Witness ==
    /\ ScoreFinished
    /\ Len(s_loop) = 2
    /\ s_loop[1].score > s_in.threshold
    /\ s_loop[2].score > s_loop[1].score
    /\ Len(s_result) = 1
    /\ s_result[1].to = s_loop[2].to

\* the floor of a candidate name against the search terms: 95, 85 or 80
\* hundredths, or 0 when no rule applies
LexicalFloor(search_terms, n_cand) ==
    LET terms == Range(search_terms)
        toks(x) == Range(Split(x))
    IN IF \E t \in terms : t = n_cand THEN 95
       ELSE IF \E t \in terms : toks(t) \subseteq toks(n_cand) \/ toks(n_cand) \subseteq toks(t)
            THEN 85
       ELSE IF \E t \in terms : Contains(n_cand, t) \/ Contains(t, n_cand) THEN 80
       ELSE 0

\* C12: the score after the lexical step is max(base, f) with f = 0.95 for
\* an exact match of a search term, otherwise 0.85 for a token-subset
\* match, otherwise 0.80 for containment, and is the base score when no
\* rule applies; a single floor is used.
C12_LexicalBoostIsMaxOfOneFloor ==
    ScoreFinished =>
        \A i \in 1..Len(s_loop) :
            LET r == s_loop[i]
                f == LexicalFloor(SearchTerms(s_in.item),
                                  normalize_hardware_name(DocOf(r.to).entity_name))
            IN /\ f = 0 => r.lexical = r.er_score
               /\ f # 0 => r.lexical = Max2(r.er_score, Pct(f))

\* C12 witness: one candidate has no lexical relation to the search terms
\* and keeps its base score, another is lifted from its base score to the
\* 0.85 floor
C12_Witness ==
    /\ ScoreFinished
    /\ \E i, j \in 1..Len(s_loop) :
          /\ LexicalFloor(SearchTerms(s_in.item),
                          normalize_hardware_name(DocOf(s_loop[i].to).entity_name)) = 0
          /\ s_loop[i].lexical = s_loop[i].er_score
          /\ s_loop[j].er_score < Pct(85) /\ s_loop[j].lexical = Pct(85)

\* C14: for an element without a label, or whose normalized label has
\* fewer than 2 characters, the call issues no candidate query and no
\* traversal, and returns no edge.
C14_ShortLabelNoQuery ==
    (\/ LabelOf(s_in.item) = <<>>
     \/ Len(normalize_hardware_name(LabelOf(s_in.item))) < 2) =>
        /\ s_calls = [cand |-> 0, trav |-> 0]
        /\ s_pc \in {"start", "done"}
        /\ s_result = <<>>

\* C14 witness: the call has returned for a port with the one-character
\* label "x" whose parent module is resolved
C14_Witness ==
    /\ s_pc = "done"
    /\ LabelOf(s_in.item) # <<>>
    /\ Len(normalize_hardware_name(LabelOf(s_in.item))) = 1
    /\ s_in.parent_entity_ids # <<>>
    /\ s_result = <<>>

\* SIMILARITY.compute agreed with the bulk query's base_score on every
\* candidate, and the traversal answered: the two paths start level
SamePremises ==
    /\ s_pc = "compared"
    /\ s_in.context_summary = <<>>
    /\ s_in.parent_entity_ids # <<>> =>
          s_related = Traverse(Range(s_in.parent_entity_ids), GoldenRelations)
                          \cup Range(s_in.parent_entity_ids)
    /\ LET bl == BulkLoop(s_in.item, s_cands, {})
       IN \A i \in 1..Len(s_cands) : s_er[s_cands[i].id] = bl[i].base_score

\* C28 as stated: every edge written by either bridging path has a score of
\* at most 1.0, given a base similarity in [0, 1].
C28_ScoreAtMostOne ==
    /\ ScoreFinished => \A i \in 1..Len(s_result) : s_result[i].score <= ScoreScale
    /\ s_pc = "compared" => \A i \in 1..Len(s_bulk) : s_bulk[i].score <= ScoreScale

\* C30 as stated: a candidate whose normalized name is empty receives no
\* lexical boost: its score after the lexical step equals its base
\* similarity.
C30_EmptyNameNoBoost ==
    ScoreFinished =>
        \A i \in 1..Len(s_loop) :
            normalize_hardware_name(DocOf(s_loop[i].to).entity_name) = <<>> =>
                s_loop[i].lexical = s_loop[i].er_score

\* C8 as stated: on the same element, candidates, parent neighbourhood and
\* threshold, the bulk path and the interactive path emit the same edge
\* (same target, score and graph_aware flag) or both emit none.
C8_BulkEqualsInteractive ==
    SamePremises =>
        \/ s_result = <<>> /\ s_bulk = <<>>
        \/ /\ s_result # <<>> /\ s_bulk # <<>>
           /\ s_result[1].to = s_bulk[1].to
           /\ s_result[1].score = s_bulk[1].score
           /\ s_result[1].graph_aware = s_bulk[1].graph_aware

\* ========================================================================
\* SpecBridge: bridge_all runs of the interactive path, with the workers of
\* each collection running concurrently
\* ========================================================================
Stages ==
    << [col |-> COL_BUS, threshold |-> Pct(50), method |-> "arch_bridging_bus", truncate |-> TRUE],
       [col |-> COL_CLOCK, threshold |-> Pct(50), method |-> "arch_bridging_clock", truncate |-> FALSE],
       [col |-> COL_FSM, threshold |-> Pct(50), method |-> "arch_bridging_fsm", truncate |-> FALSE],
       [col |-> COL_PARAMETER, threshold |-> Pct(50), method |-> "arch_bridging_param", truncate |-> FALSE],
       [col |-> COL_MEMORY, threshold |-> Pct(50), method |-> "arch_bridging_mem", truncate |-> FALSE],
       [col |-> COL_MODULE, threshold |-> Pct(70), method |-> "module_bridging_v2_poly", truncate |-> FALSE],
       [col |-> COL_PORT, threshold |-> Pct(60), method |-> "deep_bridging_v2_p", truncate |-> FALSE],
       [col |-> COL_SIGNAL, threshold |-> Pct(60), method |-> "deep_bridging_v2_s", truncate |-> FALSE] >>

StageOf(col) == CHOOSE k \in 1..Len(Stages) : Stages[k].col = col

\* list(db.collection(col_name).all()): the design's elements
DesignItems(col) ==
    CASE col = COL_BUS -> <<ItemBus, ItemBusAlu>>
      [] col = COL_MODULE -> <<ItemModule>>
      [] col = COL_PORT -> <<ItemPortOp, ItemPortX>>
      [] OTHER -> <<>>

AllElementIds ==
    UNION {{ItemId(DesignItems(Stages[k].col)[i]) : i \in 1..Len(DesignItems(Stages[k].col))} :
           k \in 1..Len(Stages)}

\* values SIMILARITY.compute returns in the bridge_all runs of the model
BridgeEROptions == {Pct(40)}

RECURSIVE SetToSeq(_)
SetToSeq(S) == IF S = {} THEN <<>> ELSE LET x == CHOOSE y \in S : TRUE
                                        IN <<x>> \o SetToSeq(S \ {x})

RECURSIVE SeqToBag(_)
SeqToBag(q) == IF q = <<>> THEN EmptyBag ELSE SetToBag({q[1]}) (+) SeqToBag(Tail(q))

RECURSIVE JoinDot(_)
\* the _key string of a list of parts
JoinDot(parts) ==
    IF Len(parts) = 1 THEN parts[1] ELSE parts[1] \o <<".">> \o JoinDot(Tail(parts))

\* number of RESOLVED_TO edges whose _from is the element id
RECURSIVE CountOver(_, _, _)
CountOver(bag, edges, id) ==
    IF edges = {} THEN 0
    ELSE LET e == CHOOSE x \in edges : TRUE
         IN (IF e.from = id THEN CopiesIn(e, bag) ELSE 0) + CountOver(bag, edges \ {e}, id)

EdgesFrom(bag, id) == CountOver(bag, BagToSet(bag), id)

\* lines 424-447: module_summaries (by label) and module_resolved_entities
\* (by module _key) from RESOLVED_TO; `ok` is FALSE when the resolved-entity
\* query raises, which leaves that map empty
PrefetchMaps(col, res, ok) ==
    IF col \notin {COL_PORT, COL_SIGNAL}
    THEN [summaries |-> <<>>, entities |-> <<>>, ok |-> TRUE]
    ELSE LET mods == Range(DesignItems(COL_MODULE))
             edges == {e \in BagToSet(res) : e.from[1] = COL_MODULE}
         IN [summaries |->
                [l \in {m.label : m \in mods} |->
                    (CHOOSE m \in mods : m.label = l).summary],
             entities |->
                IF ok THEN [k \in {JoinDot(e.from[2]) : e \in edges} |->
                               SetToSeq({e.to : e \in {x \in edges : JoinDot(x.from[2]) = k}})]
                ELSE <<>>,
             ok |-> ok]

\* lines 452-481: the arguments of the item's process_item_to_entity call
Submit(col, maps, item) ==
    LET has_parent == col \in {COL_PORT, COL_SIGNAL} /\ Len(item.key) > 1
        mod_name == item.key[1]
    IN [item |-> item,
        context |-> IF has_parent /\ mod_name \in DOMAIN maps.summaries
                    THEN maps.summaries[mod_name] ELSE <<>>,
        parent_entity_ids |-> IF has_parent /\ mod_name \in DOMAIN maps.entities
                              THEN maps.entities[mod_name] ELSE <<>>,
        st |-> "pending", result |-> <<>>, collected |-> FALSE]

\* the result list holding the last future's results alone
keep_last_results(resolved_edges, results) == results

\* line 486: resolved_edges.extend(results)
extend(resolved_edges, results) == resolved_edges \o results

\* the insert not waiting for the futures
AllCollectedNoWait(fut) == TRUE

\* as_completed has yielded every future and the executor has shut down
AllCollected(fut) == \A i \in 1..Len(fut) : fut[i].collected

InitBridge ==
    /\ resolved = EmptyBag
    /\ b_run = 0 /\ b_stage = 0 /\ b_phase = "idle"
    /\ b_maps = <<>> /\ b_fut = <<>> /\ b_edges = <<>>
    /\ b_written = [k \in 1..Len(Stages) |-> <<>>]
    /\ ScoreIdle /\ ConsIdle /\ FunIdle

\* bridge_all is started (again)
StartRun ==
    /\ b_stage = 0
    /\ b_run < MaxRuns
    /\ b_run' = b_run + 1
    /\ b_stage' = 1
    /\ b_phase' = "fetch"
    /\ b_maps' = <<>> /\ b_fut' = <<>> /\ b_edges' = <<>>
    /\ b_written' = [k \in 1..Len(Stages) |-> <<>>]
    /\ UNCHANGED resolved
    /\ UNCHANGED <<scoreVars, consVars, funVars>>

\* bridge_collection_parallel lines 414-481: read the items, pre-fetch the
\* module maps, submit one future per item
Fetch ==
    /\ b_stage > 0 /\ b_phase = "fetch"
    /\ \E ok \in BOOLEAN :
          /\ b_maps' = PrefetchMaps(Stages[b_stage].col, resolved, ok)
          /\ b_fut' = [i \in 1..Len(DesignItems(Stages[b_stage].col)) |->
                          Submit(Stages[b_stage].col, b_maps',
                                 DesignItems(Stages[b_stage].col)[i])]
    /\ b_edges' = <<>>
    /\ b_phase' = "workers"
    /\ UNCHANGED <<resolved, b_run, b_stage, b_written>>
    /\ UNCHANGED <<scoreVars, consVars, funVars>>

\* a pool thread runs process_item_to_entity for future i; an exception of
\* the candidate query (line 329) is not caught and ends the call
Worker(i) ==
    /\ b_phase \in {"workers", "unwinding"}
    /\ b_fut[i].st = "pending"
    /\ LET f == b_fut[i]
           stage == Stages[b_stage]
       IN IF SkipsItem(f.item)
          THEN b_fut' = [b_fut EXCEPT ![i].st = "done"]
          ELSE \E trav \in {Ok(Traverse(Range(f.parent_entity_ids), GoldenRelations)), Raise},
                  answer \in {Ok(c) : c \in CandidateAnswers(f.item, GoldenDocs)} \cup {Raise} :
                  IF answer = Raise
                  THEN b_fut' = [b_fut EXCEPT ![i].st = "raised"]
                  ELSE \E er \in [{answer[2][k].id : k \in 1..Len(answer[2])} -> BridgeEROptions] :
                          b_fut' = [b_fut EXCEPT
                                      ![i].st = "done",
                                      ![i].result =
                                          process_item_to_entity(
                                              f.item, answer[2], er, stage.threshold, stage.method,
                                              f.context,
                                              get_related_entities(f.parent_entity_ids, trav))]
    /\ UNCHANGED <<resolved, b_run, b_stage, b_phase, b_maps, b_edges, b_written>>
    /\ UNCHANGED <<scoreVars, consVars, funVars>>

\* lines 483-486: as_completed yields a finished future; future.result()
\* re-raises the worker's exception, which leaves the loop and the function
Collect(i) ==
    /\ b_phase = "workers"
    /\ b_fut[i].st # "pending" /\ ~b_fut[i].collected
    /\ b_fut' = [b_fut EXCEPT ![i].collected = TRUE]
    /\ IF b_fut[i].st = "raised"
       THEN b_phase' = "unwinding" /\ UNCHANGED b_edges
       ELSE /\ b_phase' = b_phase
            /\ b_edges' = (IF b_fut[i].result # <<>> THEN extend(b_edges, b_fut[i].result)
                           ELSE b_edges)
    /\ UNCHANGED <<resolved, b_run, b_stage, b_maps, b_written>>
    /\ UNCHANGED <<scoreVars, consVars, funVars>>

\* the with block waits for the running workers (shutdown(wait=True)), then
\* the exception leaves bridge_collection_parallel and bridge_all
Unwind ==
    /\ b_phase = "unwinding"
    /\ \A i \in 1..Len(b_fut) : b_fut[i].st # "pending"
    /\ b_phase' = "aborted"
    /\ b_stage' = 0
    /\ UNCHANGED <<resolved, b_run, b_maps, b_fut, b_edges, b_written>>
    /\ UNCHANGED <<scoreVars, consVars, funVars>>

\* the truncate done whether or not the batch has an edge
truncate_then_import(res, resolved_edges, truncate) ==
    (IF truncate THEN EmptyBag ELSE res) (+) SeqToBag(resolved_edges)

\* lines 488-494: RESOLVED_TO after `if resolved_edges:` with its truncate
\* and import_bulk
import_batch(res, resolved_edges, truncate) ==
    IF resolved_edges # <<>>
    THEN (IF truncate THEN EmptyBag ELSE res) (+) SeqToBag(resolved_edges)
    ELSE res

\* lines 488-500: the bulk insert, then bridge_all calls the next stage
Insert ==
    /\ b_phase = "workers"
    /\ AllCollected(b_fut)
    /\ resolved' = import_batch(resolved, b_edges, Stages[b_stage].truncate)
    /\ b_written' = (IF b_edges # <<>> THEN [b_written EXCEPT ![b_stage] = b_edges]
                     ELSE b_written)
    /\ IF b_stage < Len(Stages)
       THEN b_stage' = b_stage + 1 /\ b_phase' = "fetch"
       ELSE b_stage' = 0 /\ b_phase' = "idle"
    /\ UNCHANGED <<b_run, b_maps, b_fut, b_edges>>
    /\ UNCHANGED <<scoreVars, consVars, funVars>>

NextBridge ==
    \/ StartRun
    \/ Fetch
    \/ \E i \in 1..Len(b_fut) : Worker(i)
    \/ \E i \in 1..Len(b_fut) : Collect(i)
    \/ Unwind
    \/ Insert

SpecBridge == InitBridge /\ [][NextBridge]_vars

\* ------------------------------------------------------------------------
\* Properties of bridge_all (under SpecBridge)
\* ------------------------------------------------------------------------
RunCompleted == b_run >= 1 /\ b_stage = 0 /\ b_phase = "idle"

\* C1: after any sequence of completed bridge_all runs every structural
\* element is the source of at most one RESOLVED_TO edge.
C1_AtMostOneEdge ==
    RunCompleted => \A id \in AllElementIds : EdgesFrom(resolved, id) <= 1

\* C2: a candidate query that raises for one element does not abort the
\* batch: the collection's insert and the following stages still run.
C2_RetrievalFailureIsolated ==
    (\E i \in 1..Len(b_fut) : b_fut[i].st = "raised") =>
        b_phase \notin {"unwinding", "aborted"}

RECURSIVE ResultsOf(_, _)
\* the results of the futures of `fut` that `pick` selects, in submission order
ResultsOf(fut, pick) ==
    IF fut = <<>> THEN <<>>
    ELSE (IF pick[1] THEN fut[1].result ELSE <<>>)
             \o ResultsOf(Tail(fut), [i \in 1..(Len(pick) - 1) |-> pick[i + 1]])

\* the futures as_completed has yielded without an exception
CollectedDone(fut) == [i \in 1..Len(fut) |-> fut[i].collected /\ fut[i].st = "done"]

\* at every moment resolved_edges holds exactly the results of the futures
\* collected so far
C20_StateInv ==
    SeqToBag(b_edges) = SeqToBag(ResultsOf(b_fut, CollectedDone(b_fut)))

C20_StepInv ==
    \* the insert: every worker has finished, and the batch is the union of
    \* the per-element results, at most one edge per element
    /\ (b_phase = "workers" /\ b_stage' # b_stage) =>
          /\ \A i \in 1..Len(b_fut) : b_fut[i].st = "done"
          /\ SeqToBag(b_edges) = SeqToBag(ResultsOf(b_fut, [i \in 1..Len(b_fut) |-> TRUE]))
          /\ \A i \in 1..Len(b_fut) :
                EdgesFrom(SeqToBag(b_edges), ItemId(b_fut[i].item)) = Len(b_fut[i].result)
          /\ b_edges # <<>> =>
                /\ b_written'[b_stage] = b_edges
                /\ resolved' = (IF Stages[b_stage].truncate THEN EmptyBag ELSE resolved)
                                    (+) SeqToBag(b_edges)
          /\ b_edges = <<>> => resolved' = resolved
    \* a worker finishing touches neither the result list nor the maps
    /\ (\E i \in 1..Len(b_fut) :
            /\ Len(b_fut') = Len(b_fut)
            /\ b_fut[i].st = "pending" /\ b_fut'[i].st # "pending") =>
          b_edges' = b_edges /\ b_maps' = b_maps
    \* the result list grows only by the results of the future being collected
    /\ (b_edges' # b_edges /\ b_edges' # <<>>) =>
          \E i \in 1..Len(b_fut) :
              /\ ~b_fut[i].collected /\ b_fut'[i].collected
              /\ b_edges' = b_edges \o b_fut[i].result
    \* the maps change only when a collection is started
    /\ b_maps' # b_maps => b_phase = "fetch" \/ b_stage = 0

\* C20: for every order in which the workers of one collection complete, the
\* batch bridge_collection_parallel writes is the union of the per-element
\* results, each element's edge once, none lost and none duplicated; only
\* the collecting thread appends to the result list, and no worker modifies
\* the pre-fetched module maps.
C20_FanInKeepsEveryResult == [](C20_StateInv) /\ [][C20_StepInv]_vars

\* C20 witness: a collection with two elements wrote a batch of two edges,
\* collected in the reverse of the submission order
C20_Witness ==
    /\ Len(b_fut) = 2
    /\ b_stage > 1
    /\ Len(b_written[1]) = 2
    /\ b_written[1][1].from = ItemId(DesignItems(COL_BUS)[2])
    /\ b_written[1][2].from = ItemId(DesignItems(COL_BUS)[1])
    /\ EdgesFrom(resolved, ItemId(ItemBus)) = 1
    /\ EdgesFrom(resolved, ItemId(ItemBusAlu)) = 1

StageOrder ==
    <<COL_BUS, COL_CLOCK, COL_FSM, COL_PARAMETER, COL_MEMORY, COL_MODULE, COL_PORT, COL_SIGNAL>>

\* pending workers belong to the running stage; a port or signal stage whose
\* pre-fetch query answered has read every edge the module stage inserted
C7_StateInv ==
    /\ Len(Stages) = Len(StageOrder)
    /\ b_stage > 0 => Stages[b_stage].col = StageOrder[b_stage]
    /\ \A i \in 1..Len(b_fut) :
          b_fut[i].st = "pending" =>
              /\ b_stage > 0
              /\ b_phase \in {"workers", "unwinding"}
              /\ b_fut[i].item.col = Stages[b_stage].col
    /\ (b_stage > 0 /\ Stages[b_stage].col \in {COL_PORT, COL_SIGNAL}
          /\ b_phase = "workers" /\ b_maps.ok) =>
          \A e \in Range(b_written[StageOf(COL_MODULE)]) :
              /\ JoinDot(e.from[2]) \in DOMAIN b_maps.entities
              /\ e.to \in Range(b_maps.entities[JoinDot(e.from[2])])

\* an insert happens only when every worker of the collection has completed
\* and been collected; the stages follow one another in order; the next
\* stage's pre-fetch starts only with the previous stage's edges inserted
C7_StepInv ==
    /\ resolved' # resolved =>
          \A i \in 1..Len(b_fut) : b_fut[i].st # "pending" /\ b_fut[i].collected
    /\ (b_stage' # b_stage /\ b_stage' # 0) =>
          /\ b_stage' = b_stage + 1
          /\ \A i \in 1..Len(b_fut) : b_fut[i].st # "pending"
    /\ (b_phase = "fetch" /\ b_phase' = "workers" /\ b_stage > 1) =>
          /\ \A i \in 1..Len(b_fut) : b_fut[i].st = "done" /\ b_fut[i].collected
          /\ \A e \in Range(b_edges) : CopiesIn(e, resolved) >= 1

\* C7: the collections run strictly one after another in the order bus,
\* clock, fsm, parameter, memory, module, port, signal; a collection's bulk
\* insert happens only after all of its workers have completed, no pre-fetch
\* or worker of the next collection starts before that insert, and the port
\* and signal stages read every edge the module stage wrote.
C7_StagesSequential == [](C7_StateInv) /\ [][C7_StepInv]_vars

\* C7 witness: the port stage is running with a worker still pending, and
\* its pre-fetched map holds the edge the module stage inserted in this run
C7_Witness ==
    /\ b_stage = StageOf(COL_PORT)
    /\ b_phase = "workers"
    /\ b_written[StageOf(COL_MODULE)] # <<>>
    /\ \E i \in 1..Len(b_fut) :
          /\ b_fut[i].st = "pending"
          /\ b_fut[i].parent_entity_ids # <<>>
          /\ b_written[StageOf(COL_MODULE)][1].to \in Range(b_fut[i].parent_entity_ids)

\* ========================================================================
\* Consolidation (consolidator.py)
\* ========================================================================
MaxRawEntities == 3
MaxStage2Calls == 2

COL_RAW_ENTITIES == "Entities"
COL_RAW_RELATIONS == "Relations"
COL_GOLDEN_ENTITIES == "Golden_Entities"

\* code-point order of the characters the model uses
Alphabet ==
    <<" ", ":", "A", "L", "U", "X", "_", "a", "b", "e", "g", "i", "l", "n", "o", "r", "s",
      "t", "u", "x">>

Ord(c) == CHOOSE i \in 1..Len(Alphabet) : Alphabet[i] = c

RECURSIVE StrLess(_, _)
\* Python's s < t on strings
StrLess(s, t) ==
    IF t = <<>> THEN FALSE
    ELSE IF s = <<>> THEN TRUE
    ELSE IF s[1] # t[1] THEN Ord(s[1]) < Ord(t[1])
    ELSE StrLess(Tail(s), Tail(t))

TypeRegister == <<"r", "e", "g">>
TypeInstruction == <<"i", "n", "s", "t">>

RawEntity(key, name, type) == [key |-> key, entity_name |-> name, entity_type |-> type]

\* the raw entities a GraphRAG import may have left; _key is the number
RawPool ==
    { RawEntity(1, <<"a", "l", "u", "x">>, TypeRegister),
      RawEntity(2, <<"A", "L", "U", "X", " ">>, TypeRegister),
      RawEntity(3, <<"a", "l", "u", "n">>, TypeRegister),
      RawEntity(4, <<"b", "l", "u", "n">>, TypeRegister),
      RawEntity(5, <<"a", "l", "u", "x">>, TypeInstruction),
      RawEntity(6, <<"a", "l", "u">>, TypeRegister),
      RawEntity(7, <<"a", "l", "u", " ", "b", "o", "r">>, TypeRegister),
      RawEntity(8, <<"a", "l", "u", " ", "b", "o", "n">>, TypeRegister),
      RawEntity(9, <<"A", "L", "U", " ", "U", "n", "i", "t">>, TypeRegister),
      RawEntity(10, <<"a", "l", "u", "_", "u", "n", "i", "t">>, TypeRegister) }

RawId(key) == <<COL_RAW_ENTITIES, key>>
GoldenId(key) == <<COL_GOLDEN_ENTITIES, key>>

\* raw relations; an endpoint may be a document outside the raw entities
RawRelPool ==
    { [id |-> 1, from |-> RawId(1), to |-> RawId(3), type |-> "uses"],
      [id |-> 2, from |-> RawId(2), to |-> RawId(3), type |-> "uses"],
      [id |-> 3, from |-> RawId(4), to |-> <<"Documents", 1>>, type |-> "mentioned_in"],
      [id |-> 4, from |-> RawId(6), to |-> RawId(4), type |-> "part_of"] }

\* the relations of the pool whose raw-entity endpoints were imported
RawRelations(raw) ==
    {r \in RawRelPool :
        \A end \in {r.from, r.to} :
            end[1] = COL_RAW_ENTITIES => \E e \in raw : e.key = end[2]}

\* LOWER(TRIM(e.entity_name))
NormName(name) == Lower(Strip(name))

\* CONCAT(etype, ":", norm_name)
GoldenKeyText(etype, norm_name) == etype \o <<":">> \o norm_name

\* MD5 as an injective map whose order is unrelated to the order of its
\* arguments: the position of the text in this table
MD5Table ==
    << GoldenKeyText(TypeRegister, <<"b", "l", "u", "n">>),
       GoldenKeyText(TypeRegister, <<"a", "l", "u", " ", "b", "o", "n">>),
       GoldenKeyText(TypeRegister, <<"a", "l", "u", "x">>),
       GoldenKeyText(TypeInstruction, <<"a", "l", "u", "x">>),
       GoldenKeyText(TypeRegister, <<"a", "l", "u">>),
       GoldenKeyText(TypeRegister, <<"a", "l", "u", "n">>),
       GoldenKeyText(TypeRegister, <<"a", "l", "u", " ", "b", "o", "r">>),
       GoldenKeyText(TypeRegister, <<"a", "l", "u", "_", "u", "n", "i", "t">>),
       GoldenKeyText(TypeRegister, <<"a", "l", "u", " ", "u", "n", "i", "t">>) >>

MD5(text) == CHOOSE i \in 1..Len(MD5Table) : MD5Table[i] = text

\* COLLECT etype = e.entity_type, norm_name = LOWER(TRIM(e.entity_name))
Stage1Groups(raw) == {<<e.entity_type, NormName(e.entity_name)>> : e \in raw}

Stage1Members(raw, g) ==
    {e \in raw : e.entity_type = g[1] /\ NormName(e.entity_name) = g[2]}

\* SORT LENGTH(m.entity_name) DESC, m._key ASC LIMIT 1
Stage1Primary(members) ==
    CHOOSE m \in members :
        \A o \in members \ {m} :
            \/ Len(m.entity_name) > Len(o.entity_name)
            \/ Len(m.entity_name) = Len(o.entity_name) /\ m.key < o.key

\* the golden document of one group
Stage1Golden(raw, g) ==
    LET members == Stage1Members(raw, g)
        primary == Stage1Primary(members)
    IN [key |-> MD5(GoldenKeyText(g[1], g[2])),
        entity_name |-> primary.entity_name,
        entity_type |-> g[1],
        aliases |-> {m.entity_name : m \in members} \ {primary.entity_name},
        consolidated_count |-> Cardinality(members),
        fuzzy_merged_count |-> 0]

\* the edges golden -> member of every group; the edge's own _key is
\* generated, one per member
Stage1Consolidates(raw) ==
    {[key |-> e.key,
      from |-> GoldenId(MD5(GoldenKeyText(e.entity_type, NormName(e.entity_name)))),
      to |-> RawId(e.key)] : e \in raw}

\* lines 143-169: the golden parent of a relation endpoint, or the endpoint
GoldenParent(cons, end) ==
    IF \E c \in cons : c.to = end THEN (CHOOSE c \in cons : c.to = end).from ELSE end

SweepRelations(cons, rawrels) ==
    LET kept == {r \in rawrels : \E c \in cons : c.to = r.from \/ c.to = r.to}
        keyOf(r) == <<GoldenParent(cons, r.from), GoldenParent(cons, r.to), r.type>>
    IN {[key |-> k, from |-> k[1], to |-> k[2], type |-> k[3],
         provenance |-> {r.id : r \in {x \in kept : keyOf(x) = k}}] : k \in {keyOf(r) : r \in kept}}

\* --- stage 2: the fuzzy candidate query (lines 201-254) ------------------
\* TOKENS(norm, "text_en") on the model's names: the words of the name.
\* The analyzer breaks at whitespace and not at an underscore (Unicode word
\* boundaries), and its stemming leaves these words as they are.
TOKENS(norm) == Split(norm)

\* the edit-distance score normalized by the longer name
ConfidenceOfLonger(norm1, norm2, lev_dist) ==
    LET L == Max2(Max2(Len(norm1), Len(norm2)), 1)
    IN [num |-> L - lev_dist, den |-> L]

\* the confidence taken from the edit distance alone, whatever the length
ConfidenceLevOnly(norm1, norm2, lev_dist) ==
    LET L == Max2(Min2(Len(norm1), Len(norm2)), 1)
    IN [num |-> L - lev_dist, den |-> L]

\* the confidence of a pair as the exact fraction num/den, den > 0
Confidence(norm1, norm2, lev_dist) ==
    LET tokens1 == TOKENS(norm1)
        tokens2 == TOKENS(norm2)
        token_intersection == Cardinality(Range(tokens1) \cap Range(tokens2))
        min_tokens == Min2(Len(tokens1), Len(tokens2))
        name_length == Min2(Len(norm1), Len(norm2))
        L == Max2(name_length, 1)
    IN IF name_length <= 5 THEN [num |-> L - lev_dist, den |-> L]
       ELSE IF min_tokens > 0
            THEN [num |-> 6 * (L - lev_dist) * min_tokens + 4 * token_intersection * L,
                  den |-> 10 * L * min_tokens]
            ELSE [num |-> 6 * (L - lev_dist), den |-> 10 * L]

\* confidence >= min_confidence, min_confidence in hundredths
AtLeast(conf, min_confidence) == conf.num * 100 >= min_confidence * conf.den

\* FILTER !(is_prefix AND both_short)
PrefixRule(norm1, norm2) ==
    LET is_prefix == StartsWith(norm1, norm2) \/ StartsWith(norm2, norm1)
        both_short == Min2(Len(norm1), Len(norm2)) < 4
    IN ~(is_prefix /\ both_short)

\* the row the query returns for e1, e2
FuzzyRow(e1, e2) ==
    LET norm1 == NormName(e1.entity_name)
        norm2 == NormName(e2.entity_name)
        lev_dist == Levenshtein(norm1, norm2)
    IN [entity1_id |-> GoldenId(e1.key), entity2_id |-> GoldenId(e2.key),
        levenshtein_distance |-> lev_dist,
        confidence |-> Confidence(norm1, norm2, lev_dist)]

\* the FILTERs of the query
Qualifies(e1, e2, max_distance, min_confidence) ==
    LET norm1 == NormName(e1.entity_name)
        norm2 == NormName(e2.entity_name)
        lev_dist == Levenshtein(norm1, norm2)
    IN /\ e1.key < e2.key
       /\ e1.entity_type = e2.entity_type
       /\ lev_dist <= max_distance /\ lev_dist > 0
       /\ AtLeast(Confidence(norm1, norm2, lev_dist), min_confidence)
       /\ PrefixRule(norm1, norm2)

FuzzyCandidates(golden, max_distance, min_confidence) ==
    {FuzzyRow(e1, e2) : <<e1, e2>> \in
        {p \in golden \X golden : Qualifies(p[1], p[2], max_distance, min_confidence)}}

\* SORT confidence DESC: the orders the query may return the rows in
CandidateOrders(rows) ==
    {q \in SeqsNoDup(rows, Cardinality(rows)) :
        /\ Len(q) = Cardinality(rows)
        /\ \A i \in 1..(Len(q) - 1) :
              q[i].confidence.num * q[i + 1].confidence.den
                  >= q[i + 1].confidence.num * q[i].confidence.den}

\* --- stage 2: union-find (lines 271-297) ---------------------------------
RECURSIVE find(_, _)
\* find(x) with its path compression: the new parent and the root
find(parent, x) ==
    LET p0 == IF x \in DOMAIN parent THEN parent ELSE parent @@ (x :> x)
    IN IF p0[x] # x
       THEN LET r == find(p0, p0[x])
            IN [parent |-> [r.parent EXCEPT ![x] = r.root], root |-> r.root]
       ELSE [parent |-> p0, root |-> x]

\* union that links x itself instead of its root
unionOfElement(parent, x, y) ==
    LET fx == find(parent, x)
        fy == find(fx.parent, y)
    IN IF fx.root # fy.root THEN [fy.parent EXCEPT ![x] = fy.root] ELSE fy.parent

union(parent, x, y) ==
    LET fx == find(parent, x)
        fy == find(fx.parent, y)
    IN IF fx.root # fy.root THEN [fy.parent EXCEPT ![fx.root] = fy.root] ELSE fy.parent

\* merge_groups[root].append(entity1_id); .append(entity2_id)
AppendToGroup(groups, root, id1, id2) ==
    IF \E k \in 1..Len(groups) : groups[k].root = root
    THEN [k \in 1..Len(groups) |->
             IF groups[k].root = root
             THEN [groups[k] EXCEPT !.ids = @ \o <<id1, id2>>] ELSE groups[k]]
    ELSE Append(groups, [root |-> root, ids |-> <<id1, id2>>])

\* merge_groups = {k: list(set(v)) ...}
DedupGroups(groups) ==
    [k \in 1..Len(groups) |-> [root |-> groups[k].root, ids |-> Range(groups[k].ids)]]

\* --- stage 2: the merge of one group (lines 305-374) ---------------------
\* max(entities, key=lambda e: (len(e['entity_name']), e['entity_name']))
Stage2Primary(entities) ==
    CHOOSE m \in entities :
        \A o \in entities \ {m} :
            \/ Len(m.entity_name) > Len(o.entity_name)
            \/ Len(m.entity_name) = Len(o.entity_name) /\ StrLess(o.entity_name, m.entity_name)

\* the UPDATE of the primary
UpdatePrimary(primary, secondaries) ==
    [primary EXCEPT
        !.aliases = (primary.aliases
                      \cup UNION {sec.aliases \cup {sec.entity_name} : sec \in secondaries})
                     \ {primary.entity_name},
        !.fuzzy_merged_count = Cardinality(secondaries)]

\* the secondaries staying in the collection
KeepSecondaries(golden, secondaries) == golden

\* db.collection(COL_GOLDEN_ENTITIES).delete(sec['_key']) for every secondary
DeleteSecondaries(golden, secondaries) == golden \ secondaries

\* the CONSOLIDATES edges left as they are
RepointNothing(cons, secondary_ids, primary_id) == cons

\* UPDATE edge WITH {_from: @primary_id} for the edges of every secondary
Repoint(cons, secondary_ids, primary_id) ==
    {IF c.from \in secondary_ids THEN [c EXCEPT !.from = primary_id] ELSE c : c \in cons}

\* ========================================================================
\* SpecCons: consolidate_entities and consolidate_fuzzy_stage2 on the raw
\* entities of the pool
\* ========================================================================
RawSets == {S \in SUBSET RawPool : Cardinality(S) <= MaxRawEntities}

DistanceOptions == {1, 2}
\* min_confidence in hundredths
ConfidenceOptions == {50, 75}

\* prior: what the collections held when the latest consolidate_entities
\* started: "none", the output of "stage1", or of a stage 2 that "merged"
HistInit ==
    [stage1 |-> FALSE, raised |-> FALSE, calls |-> 0, full_runs |-> 0, prior_full |-> 0,
     dry_run |-> FALSE, merged |-> 0, prior |-> "none"]

InitCons ==
    /\ c_has_raw \in {[entities |-> TRUE, relations |-> TRUE],
                      [entities |-> FALSE, relations |-> TRUE],
                      [entities |-> TRUE, relations |-> FALSE]}
    /\ c_raw \in RawSets
    /\ c_golden = {} /\ c_cons = {} /\ c_rels = {}
    /\ c_params \in [max_distance : DistanceOptions, min_confidence : ConfidenceOptions]
    /\ c_pc = "idle" /\ c_cands = <<>> /\ c_i = 0 /\ c_parent = <<>> /\ c_groups = <<>>
    /\ c_hist = HistInit
    /\ ScoreIdle /\ BridgeIdle /\ FunIdle

\* the upstream import's collection is dropped after a consolidation
DropRawCollection ==
    /\ c_pc = "idle"
    /\ c_hist.stage1
    /\ c_has_raw.entities /\ c_has_raw.relations
    /\ \E which \in {"entities", "relations"} : c_has_raw' = [c_has_raw EXCEPT ![which] = FALSE]
    /\ UNCHANGED <<c_raw, c_golden, c_cons, c_rels, c_params, c_pc, c_cands, c_i, c_parent,
                   c_groups, c_hist>>
    /\ UNCHANGED <<scoreVars, bridgeVars, funVars>>

\* a collection as the raise would leave it if the resets came first
ResetBeforeRaise(collection) == {}

\* a collection as the raise leaves it: the has_collection checks (lines
\* 94-97) come before the first _reset_collection (line 99)
RaiseBeforeReset(collection) == collection

\* consolidate_entities, lines 94-97: a raw collection is missing
Stage1Raise ==
    /\ c_pc = "idle"
    /\ ~(c_has_raw.entities /\ c_has_raw.relations)
    /\ c_hist' = [c_hist EXCEPT !.raised = TRUE]
    /\ c_golden' = RaiseBeforeReset(c_golden)
    /\ c_cons' = RaiseBeforeReset(c_cons)
    /\ c_rels' = RaiseBeforeReset(c_rels)
    /\ UNCHANGED <<c_has_raw, c_raw, c_params, c_pc, c_cands, c_i, c_parent, c_groups>>
    /\ UNCHANGED <<scoreVars, bridgeVars, funVars>>

\* the collection left as it is before the inserts
keep_collection(collection) == collection

\* _reset_collection: db.collection(name).truncate()
reset_collection(collection) == {}

\* consolidate_entities, lines 99-175: reset, group, elect, link, sweep
Stage1 ==
    /\ c_pc = "idle"
    /\ c_has_raw.entities /\ c_has_raw.relations
    /\ c_golden' = reset_collection(c_golden)
                       \cup {Stage1Golden(c_raw, g) : g \in Stage1Groups(c_raw)}
    /\ c_cons' = reset_collection(c_cons) \cup Stage1Consolidates(c_raw)
    /\ c_rels' = reset_collection(c_rels) \cup SweepRelations(c_cons', RawRelations(c_raw))
    /\ c_hist' = [HistInit EXCEPT
                     !.stage1 = TRUE,
                     !.prior = IF ~c_hist.stage1 THEN "none"
                               ELSE IF c_hist.merged > 0 THEN "merged" ELSE "stage1"]
    /\ c_cands' = <<>>
    /\ UNCHANGED <<c_has_raw, c_raw, c_params, c_pc, c_i, c_parent, c_groups>>
    /\ UNCHANGED <<scoreVars, bridgeVars, funVars>>

\* the early return taken for an empty candidate list alone
ReturnsEarlyWhenEmpty(dry_run, candidates) == Len(candidates) = 0

\* line 264: if dry_run or len(candidates) == 0: return candidates
ReturnsEarly(dry_run, candidates) == dry_run \/ Len(candidates) = 0

\* consolidate_fuzzy_stage2, lines 201-265: the candidate query and the
\* early return
Stage2Query ==
    /\ c_pc = "idle"
    /\ c_hist.stage1
    /\ c_hist.calls < MaxStage2Calls
    /\ \E dry_run \in BOOLEAN :
       \E cands \in CandidateOrders(FuzzyCandidates(c_golden, c_params.max_distance,
                                                    c_params.min_confidence)) :
          /\ c_cands' = cands
          /\ IF ReturnsEarly(dry_run, cands)
             THEN /\ c_pc' = "idle" /\ c_i' = 0
                  /\ c_hist' = [c_hist EXCEPT !.calls = @ + 1, !.dry_run = dry_run,
                                              !.prior_full = c_hist.full_runs,
                                              !.full_runs = IF dry_run THEN @ ELSE @ + 1]
             ELSE /\ c_pc' = "union" /\ c_i' = 1
                  /\ c_hist' = [c_hist EXCEPT !.calls = @ + 1, !.dry_run = dry_run,
                                              !.prior_full = c_hist.full_runs]
    /\ c_parent' = <<>> /\ c_groups' = <<>>
    /\ UNCHANGED <<c_has_raw, c_raw, c_golden, c_cons, c_rels, c_params>>
    /\ UNCHANGED <<scoreVars, bridgeVars, funVars>>

\* lines 286-287: union(cand['entity1_id'], cand['entity2_id'])
UnionStep ==
    /\ c_pc = "union"
    /\ c_parent' = union(c_parent, c_cands[c_i].entity1_id, c_cands[c_i].entity2_id)
    /\ IF c_i < Len(c_cands)
       THEN c_i' = c_i + 1 /\ c_pc' = "union"
       ELSE c_i' = 1 /\ c_pc' = "group"
    /\ UNCHANGED <<c_has_raw, c_raw, c_golden, c_cons, c_rels, c_params, c_cands, c_groups, c_hist>>
    /\ UNCHANGED <<scoreVars, bridgeVars, funVars>>

\* lines 290-297: the candidate's ids join the group of entity1's root;
\* after the last candidate the groups are deduplicated
GroupStep ==
    /\ c_pc = "group"
    /\ LET f == find(c_parent, c_cands[c_i].entity1_id)
           groups == AppendToGroup(c_groups, f.root, c_cands[c_i].entity1_id,
                                   c_cands[c_i].entity2_id)
       IN /\ c_parent' = f.parent
          /\ IF c_i < Len(c_cands)
             THEN c_i' = c_i + 1 /\ c_pc' = "group" /\ c_groups' = groups
             ELSE c_i' = 1 /\ c_pc' = "merge" /\ c_groups' = DedupGroups(groups)
    /\ UNCHANGED <<c_has_raw, c_raw, c_golden, c_cons, c_rels, c_params, c_cands, c_hist>>
    /\ UNCHANGED <<scoreVars, bridgeVars, funVars>>

\* lines 303-374: one iteration of the merge loop; after the last group the
\* call returns
MergeStep ==
    /\ c_pc = "merge"
    /\ LET entity_ids == c_groups[c_i].ids
           entities == {e \in c_golden : GoldenId(e.key) \in entity_ids}
           primary == Stage2Primary(entities)
           secondaries == entities \ {primary}
           n == IF Cardinality(entity_ids) < 2 THEN 0 ELSE Cardinality(secondaries)
       IN /\ IF Cardinality(entity_ids) < 2
             THEN UNCHANGED <<c_golden, c_cons>>
             ELSE /\ c_golden' =
                        DeleteSecondaries((c_golden \ {primary})
                                              \cup {UpdatePrimary(primary, secondaries)},
                                          secondaries)
                  /\ c_cons' = Repoint(c_cons, {GoldenId(sec.key) : sec \in secondaries},
                                       GoldenId(primary.key))
          /\ IF c_i < Len(c_groups)
             THEN /\ c_i' = c_i + 1 /\ c_pc' = "merge"
                  /\ c_hist' = [c_hist EXCEPT !.merged = @ + n]
             ELSE /\ c_i' = 0 /\ c_pc' = "idle"
                  /\ c_hist' = [c_hist EXCEPT !.merged = @ + n, !.full_runs = @ + 1]
    /\ UNCHANGED <<c_has_raw, c_raw, c_rels, c_params, c_cands, c_parent, c_groups>>
    /\ UNCHANGED <<scoreVars, bridgeVars, funVars>>

NextCons ==
    \/ DropRawCollection
    \/ Stage1Raise
    \/ Stage1
    \/ Stage2Query
    \/ UnionStep
    \/ GroupStep
    \/ MergeStep

SpecCons == InitCons /\ [][NextCons]_vars

\* ------------------------------------------------------------------------
\* Properties of the consolidation (under SpecCons)
\* ------------------------------------------------------------------------
\* C3: a stage-2 call that is not a dry run and follows a completed
\* non-dry stage-2 call on the same golden entities, with the same distance
\* bound and confidence threshold, finds no qualifying pair and merges
\* nothing.
C3_SecondRunFixedPoint ==
    (c_hist.calls >= 2 /\ c_hist.prior_full >= 1 /\ ~c_hist.dry_run)
        => (c_cands = <<>> /\ c_pc = "idle")

\* a second non-dry call has returned after a first one merged a chain
C3_Witness ==
    /\ c_hist.calls >= 2 /\ c_hist.prior_full >= 1 /\ ~c_hist.dry_run
    /\ c_hist.merged >= 2
    /\ c_cands = <<>> /\ c_pc = "idle"

\* C5: after stage 1 and after every stage-2 merge, every raw entity is the
\* target of exactly one CONSOLIDATES edge, the source of every edge is a
\* golden entity that exists, and every golden entity that exists is the
\* source of at least one edge.
C5_ProvenanceKept ==
    c_hist.stage1 =>
        /\ \A e \in c_raw : Cardinality({c \in c_cons : c.to = RawId(e.key)}) = 1
        /\ \A c \in c_cons : \E g \in c_golden : GoldenId(g.key) = c.from
        /\ \A g \in c_golden : \E c \in c_cons : c.from = GoldenId(g.key)

\* a merge has handed the edges of a removed golden entity to the survivor
C5_Witness ==
    /\ c_hist.stage1 /\ c_hist.merged >= 1
    /\ \E g \in c_golden : \E c1, c2 \in c_cons :
          /\ c1.from = GoldenId(g.key) /\ c2.from = GoldenId(g.key)
          /\ \E e1, e2 \in c_raw :
                /\ c1.to = RawId(e1.key) /\ c2.to = RawId(e2.key)
                /\ NormName(e1.entity_name) # NormName(e2.entity_name)

\* C15: while a raw collection is absent, no call that starts changes the
\* golden entities, the CONSOLIDATES edges or the golden relations, and the
\* call of consolidate_entities that raises leaves them, and the existence
\* of the golden collections, as they were.
C15_RaiseBeforeAnyWrite ==
    [][(c_pc = "idle" /\ ~(c_has_raw.entities /\ c_has_raw.relations)) =>
          /\ c_golden' = c_golden /\ c_cons' = c_cons /\ c_rels' = c_rels
          /\ c_hist'.stage1 = c_hist.stage1]_vars

\* C15 witness: consolidate_entities has raised while the collections held
\* the output of an earlier run
C15_Witness ==
    /\ c_hist.raised
    /\ ~(c_has_raw.entities /\ c_has_raw.relations)
    /\ c_golden # {} /\ c_cons # {} /\ c_rels # {}

\* C16: when consolidate_entities has returned, whatever the collections
\* held before (nothing, the output of an earlier run, or that output
\* after stage-2 merges), the golden entities are one per (type,
\* normalized name) of the raw entities, under the key of that pair, and
\* the CONSOLIDATES edges are one per raw entity, from its group's golden
\* entity: what a single run on the same raw entities leaves.
C16_Stage1Idempotent ==
    (c_hist.stage1 /\ c_hist.calls = 0) =>
        /\ {g.key : g \in c_golden}
              = {MD5(GoldenKeyText(e.entity_type, NormName(e.entity_name))) : e \in c_raw}
        /\ Cardinality(c_golden) = Cardinality(Stage1Groups(c_raw))
        /\ {<<c.from, c.to>> : c \in c_cons}
              = {<<GoldenId(MD5(GoldenKeyText(e.entity_type, NormName(e.entity_name)))),
                   RawId(e.key)>> : e \in c_raw}
        /\ Cardinality(c_cons) = Cardinality(c_raw)
        /\ \A g \in c_golden : g.fuzzy_merged_count = 0

\* C16 witness: consolidate_entities has run again on collections in which
\* stage 2 had merged entities
C16_Witness ==
    /\ c_hist.stage1 /\ c_hist.calls = 0
    /\ c_hist.prior = "merged"
    /\ Cardinality(c_golden) >= 2 /\ Cardinality(c_cons) >= 2

\* the golden entity a raw entity's CONSOLIDATES edge comes from
GoldenOf(e) ==
    CHOOSE g \in c_golden : \E c \in c_cons : c.from = GoldenId(g.key) /\ c.to = RawId(e.key)

\* C13: after stage 1 and a completed stage 2 with the default parameters
\* (distance at most 1, confidence at least 0.75), two raw entities of the
\* same type whose names differ only in letter case and in underscore
\* versus space are consolidated by one golden entity, which has both
\* CONSOLIDATES edges and carries both names as its name or an alias.
C13_SameNormalizedNameOneGolden ==
    (c_hist.stage1 /\ c_hist.full_runs >= 1 /\ c_pc = "idle"
        /\ c_params = [max_distance |-> 1, min_confidence |-> 75]) =>
        \A e1, e2 \in c_raw :
            (/\ e1.entity_type = e2.entity_type
             /\ normalize_hardware_name(e1.entity_name)
                   = normalize_hardware_name(e2.entity_name)) =>
                /\ GoldenOf(e1) = GoldenOf(e2)
                /\ {e1.entity_name, e2.entity_name}
                      \subseteq {GoldenOf(e1).entity_name} \cup GoldenOf(e1).aliases

\* the golden entities of the group the merge loop is about to merge
MergeEntities == {e \in c_golden : GoldenId(e.key) \in c_groups[c_i].ids}

\* a merge-loop iteration that merges a cluster of two or more entities
MergesCluster == c_pc = "merge" /\ Cardinality(c_groups[c_i].ids) >= 2

\* C21 as stated: the survivor of a stage-2 merge cluster is the member with
\* the longest entity_name and, among the members of that length, the one
\* whose name comes first alphabetically.
C21_SurvivorLongestThenFirst ==
    [][MergesCluster =>
          \A m \in MergeEntities :
              (\E g \in c_golden' : g.key = m.key) =>
                  \A o \in MergeEntities \ {m} :
                      \/ Len(m.entity_name) > Len(o.entity_name)
                      \/ /\ Len(m.entity_name) = Len(o.entity_name)
                         /\ StrLess(m.entity_name, o.entity_name)]_vars

\* a step that runs the candidate query of consolidate_fuzzy_stage2
RunsFuzzyQuery == c_hist'.calls = c_hist.calls + 1

\* the pair passes the type, distance and confidence filters of the query
PassesDistanceAndConfidence(e1, e2) ==
    LET norm1 == NormName(e1.entity_name)
        norm2 == NormName(e2.entity_name)
        lev_dist == Levenshtein(norm1, norm2)
    IN /\ e1.key < e2.key
       /\ e1.entity_type = e2.entity_type
       /\ lev_dist <= c_params.max_distance /\ lev_dist > 0
       /\ AtLeast(Confidence(norm1, norm2, lev_dist), c_params.min_confidence)

\* the query returned a row for the pair
Returned(cands, e1, e2) ==
    \E k \in 1..Len(cands) :
        cands[k].entity1_id = GoldenId(e1.key) /\ cands[k].entity2_id = GoldenId(e2.key)

\* C22 as stated: a same-type pair within the distance bound and at or above
\* the confidence threshold is rejected by the prefix rule exactly when one
\* normalized name is a prefix of the other and both normalized names have
\* fewer than 4 characters, for every distance bound and threshold.
C22_PrefixRuleBothShort ==
    [][RunsFuzzyQuery =>
          \A e1, e2 \in c_golden :
              PassesDistanceAndConfidence(e1, e2) =>
                  LET norm1 == NormName(e1.entity_name)
                      norm2 == NormName(e2.entity_name)
                  IN ~Returned(c_cands', e1, e2)
                        <=> /\ StartsWith(norm1, norm2) \/ StartsWith(norm2, norm1)
                            /\ Len(norm1) < 4 /\ Len(norm2) < 4]_vars

\* C24: with dry_run=True consolidate_fuzzy_stage2 only reads: it returns
\* the candidate pairs and performs no entity update, no re-pointing of
\* CONSOLIDATES edges and no delete, so the golden entities and the
\* CONSOLIDATES edges are unchanged.
C24_DryRunOnlyReads ==
    /\ [](c_hist.dry_run => c_pc = "idle")
    /\ [][(RunsFuzzyQuery /\ c_hist'.dry_run) =>
             /\ c_golden' = c_golden /\ c_cons' = c_cons /\ c_rels' = c_rels
             /\ c_hist'.merged = c_hist.merged
             /\ c_cands' \in CandidateOrders(FuzzyCandidates(c_golden, c_params.max_distance,
                                                              c_params.min_confidence))]_vars

\* C24 witness: a dry run returned candidate pairs, and nothing was merged
C24_Witness ==
    /\ c_hist.dry_run /\ c_pc = "idle"
    /\ c_cands # <<>>
    /\ c_hist.merged = 0
    /\ \A k \in 1..Len(c_cands) :
          \E e1, e2 \in c_golden :
              c_cands[k].entity1_id = GoldenId(e1.key) /\ c_cands[k].entity2_id = GoldenId(e2.key)

\* C27 as stated: after consolidate_fuzzy_stage2 has merged a cluster, no
\* edge of the golden relations has an endpoint that is a removed golden
\* entity (the relations of a removed member are carried over to the
\* survivor).
C27_NoRelationToRemovedGolden ==
    (c_hist.merged > 0 /\ c_pc = "idle") =>
        \A r \in c_rels :
            \A end \in {r.from, r.to} :
                end[1] = COL_GOLDEN_ENTITIES => \E g \in c_golden : GoldenId(g.key) = end

\* ========================================================================
\* SpecUF: the union-find of consolidate_fuzzy_stage2 on every list of pairs
\* ========================================================================
MaxIds == 4
MaxPairs == 3

\* the pairs the query can return: entity1's key is the smaller one
PairRows ==
    {[entity1_id |-> GoldenId(a), entity2_id |-> GoldenId(b)] :
        <<a, b>> \in {p \in (1..MaxIds) \X (1..MaxIds) : p[1] < p[2]}}

InitUF ==
    /\ c_cands \in SeqsNoDup(PairRows, MaxPairs) \ {<<>>}
    /\ c_pc = "union" /\ c_i = 1 /\ c_parent = <<>> /\ c_groups = <<>>
    /\ c_has_raw = <<>> /\ c_raw = {} /\ c_golden = {} /\ c_cons = {} /\ c_rels = {}
    /\ c_params = <<>> /\ c_hist = <<>>
    /\ ScoreIdle /\ BridgeIdle /\ FunIdle

NextUF ==
    \/ UnionStep
    \/ GroupStep

SpecUF == InitUF /\ [][NextUF]_vars

\* the ids of a list of pairs
PairIds(cands) == UNION {{cands[k].entity1_id, cands[k].entity2_id} : k \in 1..Len(cands)}

RECURSIVE Component(_, _)
\* the ids linked to the set S by a chain of pairs
Component(S, cands) ==
    LET T == S \cup {cands[k].entity2_id : k \in {j \in 1..Len(cands) : cands[j].entity1_id \in S}}
               \cup {cands[k].entity1_id : k \in {j \in 1..Len(cands) : cands[j].entity2_id \in S}}
    IN IF T = S THEN S ELSE Component(T, cands)

\* C4: when the groups are built, the groups are exactly the connected
\* components of the graph of the pairs, and every id of a pair is in
\* exactly one group.
C4_GroupsAreComponents ==
    c_pc = "merge" =>
        /\ {c_groups[k].ids : k \in 1..Len(c_groups)}
              = {Component({x}, c_cands) : x \in PairIds(c_cands)}
        /\ \A x \in PairIds(c_cands) :
              Cardinality({k \in 1..Len(c_groups) : x \in c_groups[k].ids}) = 1

\* one group holds a chain A~B, B~C whose ends A and C are not a pair
C4_Witness ==
    /\ c_pc = "merge"
    /\ \E k \in 1..Len(c_groups) : Cardinality(c_groups[k].ids) >= 3
    /\ \E i, j \in 1..Len(c_cands) :
          /\ c_cands[i].entity2_id = c_cands[j].entity1_id
          /\ \A k \in 1..Len(c_cands) :
                ~(c_cands[k].entity1_id = c_cands[i].entity1_id
                  /\ c_cands[k].entity2_id = c_cands[j].entity2_id)

\* ========================================================================
\* SpecNormalize: normalize_hardware_name on every input of the bounded set
\* ========================================================================
MaxParts == 3

\* str.upper() on the letters the model uses
UpperChar(c) ==
    CASE c = "a" -> "A" [] c = "b" -> "B" [] c = "l" -> "L" [] c = "n" -> "N"
      [] c = "o" -> "O" [] c = "r" -> "R" [] c = "u" -> "U" [] c = "x" -> "X"
      [] OTHER -> c

Upper(s) == [i \in 1..Len(s) |-> UpperChar(s[i])]

\* the pieces the input names are put together from
NameParts ==
    {Or1200Prefix, Upper(Or1200Prefix), <<"a">>, <<"a", "_">>, <<"B">>, <<"_">>, <<".">>, <<" ">>}

RECURSIVE ConcatAll(_)
ConcatAll(parts) == IF parts = <<>> THEN <<>> ELSE parts[1] \o ConcatAll(Tail(parts))

RECURSIVE SeqsUpTo(_, _)
\* all sequences of length at most n over the set S
SeqsUpTo(S, n) ==
    IF n = 0 THEN {<<>>}
    ELSE {<<>>} \cup {<<x>> \o t : x \in S, t \in SeqsUpTo(S, n - 1)}

\* an argument is None or a string, given by its pieces
NameArgs ==
    {[is_none |-> TRUE, parts |-> <<>>]}
        \cup {[is_none |-> FALSE, parts |-> q] : q \in SeqsUpTo(NameParts, MaxParts)}

\* `if not name: return ""` holds for None as for the empty string
NameText(arg) == IF arg.is_none THEN <<>> ELSE ConcatAll(arg.parts)

\* the name with each piece in upper or in lower case
CaseVariant(arg, mask) ==
    ConcatAll([k \in 1..Len(arg.parts) |->
                  IF mask[k] THEN Upper(arg.parts[k]) ELSE Lower(arg.parts[k])])

InitNormalize ==
    /\ f_pc = "start"
    /\ f_in \in NameArgs
    /\ f_out = <<>>
    /\ ScoreIdle /\ BridgeIdle /\ ConsIdle

\* normalize_hardware_name(x)
NormalizeOnce ==
    /\ f_pc = "start"
    /\ f_out' = [once |-> normalize_hardware_name(NameText(f_in))]
    /\ f_pc' = "once"
    /\ UNCHANGED f_in
    /\ UNCHANGED <<scoreVars, bridgeVars, consVars>>

\* normalize_hardware_name(normalize_hardware_name(x))
NormalizeTwice ==
    /\ f_pc = "once"
    /\ f_out' = [once |-> f_out.once, twice |-> normalize_hardware_name(f_out.once)]
    /\ f_pc' = "twice"
    /\ UNCHANGED f_in
    /\ UNCHANGED <<scoreVars, bridgeVars, consVars>>

\* normalize_hardware_name(y) for a y that differs from x in letter case
NormalizeVariant ==
    /\ f_pc = "twice"
    /\ ~f_in.is_none
    /\ \E mask \in [1..Len(f_in.parts) -> BOOLEAN] :
          f_out' = [once |-> f_out.once, twice |-> f_out.twice,
                    variant_in |-> CaseVariant(f_in, mask),
                    variant |-> normalize_hardware_name(CaseVariant(f_in, mask))]
    /\ f_pc' = "variant"
    /\ UNCHANGED f_in
    /\ UNCHANGED <<scoreVars, bridgeVars, consVars>>

NextNormalize == NormalizeOnce \/ NormalizeTwice \/ NormalizeVariant

SpecNormalize == InitNormalize /\ [][NextNormalize]_vars

\* ------------------------------------------------------------------------
\* Properties of normalize_hardware_name (under SpecNormalize)
\* ------------------------------------------------------------------------
\* C17: normalize(normalize(x)) = normalize(x); normalize(y) = normalize(x)
\* when y differs from x only in letter case; and normalize("ALU_Result")
\* = normalize("alu result").
C17_NormalizeIdempotentCaseless ==
    /\ f_pc \in {"twice", "variant"} => f_out.twice = f_out.once
    /\ f_pc = "variant" => f_out.variant = f_out.once
    /\ normalize_hardware_name(<<"A", "L", "U", "_", "R", "e", "s", "u", "l", "t">>)
          = normalize_hardware_name(<<"a", "l", "u", " ", "r", "e", "s", "u", "l", "t">>)

\* C17 witness: a name with the or1200_ prefix and an underscore behind it
\* was normalized to something else, normalized again, and normalized in a
\* different letter case
C17_Witness ==
    /\ f_pc = "variant"
    /\ StartsWith(Lower(NameText(f_in)), Or1200Prefix)
    /\ f_out.variant_in # NameText(f_in)
    /\ f_out.once # <<>>
    /\ \E i \in 1..Len(f_out.once) : f_out.once[i] = " "

\* C18 as stated: the output is lowercase, has no underscore, no '.', no
\* leading or trailing whitespace and no run of more than one whitespace
\* character, and is the empty string for an empty or None input.
C18_NormalizeOutputForm ==
    f_pc \in {"once", "twice", "variant"} =>
        LET out == f_out.once
        IN /\ Lower(out) = out
           /\ \A i \in 1..Len(out) : out[i] \notin {"_", "."}
           /\ out # <<>> => out[1] \notin Whitespace /\ out[Len(out)] \notin Whitespace
           /\ \A i \in 1..(Len(out) - 1) : ~(out[i] \in Whitespace /\ out[i + 1] \in Whitespace)
           /\ NameText(f_in) = <<>> => out = <<>>

\* ------------------------------------------------------------------------
\* bridger.py: calculate_token_overlap, called on its own
\* ------------------------------------------------------------------------
MaxWords == 2

TextPieces == {"alu", "ALU", "unit", "The", "-"}

\* a text argument: None, or a text of up to MaxWords pieces
TextArgs ==
    {[is_none |-> TRUE, words |-> <<>>]}
        \cup {[is_none |-> FALSE, words |-> w] : w \in SeqsUpTo(TextPieces, MaxWords)}

\* what `not text` and the tokenizer see of the argument
TextOf(arg) == IF arg.is_none THEN <<>> ELSE arg.words

InitOverlap ==
    /\ ScoreIdle /\ BridgeIdle /\ ConsIdle
    /\ f_pc = "start"
    /\ \E a \in TextArgs, b \in TextArgs : f_in = [text1 |-> a, text2 |-> b]
    /\ f_out = <<>>

\* calculate_token_overlap(a, b)
OverlapAB ==
    /\ f_pc = "start"
    /\ f_out' = [ab |-> calculate_token_overlap(TextOf(f_in.text1), TextOf(f_in.text2))]
    /\ f_pc' = "ab"
    /\ UNCHANGED f_in
    /\ UNCHANGED <<scoreVars, bridgeVars, consVars>>

\* calculate_token_overlap(b, a)
OverlapBA ==
    /\ f_pc = "ab"
    /\ f_out' = [ab |-> f_out.ab,
                 ba |-> calculate_token_overlap(TextOf(f_in.text2), TextOf(f_in.text1))]
    /\ f_pc' = "ba"
    /\ UNCHANGED f_in
    /\ UNCHANGED <<scoreVars, bridgeVars, consVars>>

NextOverlap == OverlapAB \/ OverlapBA

SpecOverlap == InitOverlap /\ [][NextOverlap]_vars

\* ------------------------------------------------------------------------
\* Properties of calculate_token_overlap (under SpecOverlap)
\* ------------------------------------------------------------------------
\* C19: calculate_token_overlap(a, b) = calculate_token_overlap(b, a) for
\* all texts a and b, and the value is 0 when either text is empty or None.
C19_OverlapSymmetric ==
    f_pc = "ba" =>
        /\ f_out.ab = f_out.ba
        /\ (TextOf(f_in.text1) = <<>> \/ TextOf(f_in.text2) = <<>>) => f_out.ab = 0

\* C19 witness: both orders were computed for two texts whose token sets
\* differ in size and share a token
C19_Witness ==
    /\ f_pc = "ba"
    /\ f_out.ba > 0
    /\ Cardinality(Tokenize(TextOf(f_in.text1)) \ StopWords)
          > Cardinality(Tokenize(TextOf(f_in.text2)) \ StopWords)

\* ------------------------------------------------------------------------
\* bridger.py: get_related_entities, called on its own
\* ------------------------------------------------------------------------
MaxParents == 2

\* Golden_Relations edges the traversal may find
RelationPool == { <<"G1", "G2">>, <<"G2", "G3">>, <<"G4", "G3">> }

\* a parent_entity_ids argument: None, or a list of up to MaxParents ids
ParentArgs ==
    {[is_none |-> TRUE, ids |-> <<>>]}
        \cup {[is_none |-> FALSE, ids |-> q] : q \in SeqsNoDup(GoldenIds, MaxParents)}

\* what `not parent_entity_ids` and the query see of the argument
ParentsOf(arg) == IF arg.is_none THEN <<>> ELSE arg.ids

InitRelated ==
    /\ ScoreIdle /\ BridgeIdle /\ ConsIdle
    /\ f_pc = "start"
    /\ \E a \in ParentArgs, rels \in SUBSET RelationPool : f_in = [parents |-> a, rels |-> rels]
    /\ f_out = <<>>

\* one call: the traversal query (line 183) is issued only for a non-empty
\* list, and answers with the vertices it reached or raises
RelatedCall ==
    /\ f_pc = "start"
    /\ LET parent_entity_ids == ParentsOf(f_in.parents)
       IN IF parent_entity_ids = <<>>
          THEN f_out' = [queries |-> <<>>,
                         result |-> get_related_entities(parent_entity_ids, Raise)]
          ELSE \E answer \in {Ok(Traverse(Range(parent_entity_ids), f_in.rels)), Raise} :
                  f_out' = [queries |-> <<answer>>,
                            result |-> get_related_entities(parent_entity_ids, answer)]
    /\ f_pc' = "returned"
    /\ UNCHANGED f_in
    /\ UNCHANGED <<scoreVars, bridgeVars, consVars>>

NextRelated == RelatedCall

SpecRelated == InitRelated /\ [][NextRelated]_vars

\* ------------------------------------------------------------------------
\* Properties of get_related_entities (under SpecRelated)
\* ------------------------------------------------------------------------
\* C25: get_related_entities returns the empty set for an empty or None
\* parent list without issuing a query; for a non-empty list it returns a
\* set with every parent id and every id the depth 1-2 traversal returned;
\* and if the traversal raises it returns exactly the set of parent ids and
\* raises nothing.
C25_RelatedEntities ==
    f_pc = "returned" =>
        LET parents == ParentsOf(f_in.parents)
        IN /\ parents = <<>> => f_out.result = {} /\ f_out.queries = <<>>
           /\ parents # <<>> =>
                 /\ Len(f_out.queries) = 1
                 /\ Range(parents) \subseteq f_out.result
                 /\ f_out.queries[1] # Raise =>
                       f_out.result = Range(parents) \cup Traverse(Range(parents), f_in.rels)
                 /\ f_out.queries[1] = Raise => f_out.result = Range(parents)

\* C25 witness: the traversal raised for a parent that has neighbours, and
\* the call returned the parents alone
C25_Witness ==
    /\ f_pc = "returned"
    /\ ParentsOf(f_in.parents) # <<>>
    /\ f_out.queries = <<Raise>>
    /\ Traverse(Range(ParentsOf(f_in.parents)), f_in.rels) \ Range(ParentsOf(f_in.parents)) # {}
    /\ f_out.result = Range(ParentsOf(f_in.parents))

\* ------------------------------------------------------------------------
\* consolidator.py: the filters of the fuzzy candidate query on one pair of
\* golden entities
\* ------------------------------------------------------------------------
MaxNameLen == 4

NameLetters == {"a", "b", " "}

\* entity_name values: every string of up to MaxNameLen characters, and
\* the longer names of the raw pool
EntityNames ==
    UNION {[1..n -> NameLetters] : n \in 0..MaxNameLen} \cup {e.entity_name : e \in RawPool}

\* levenshtein_distance=1, min_confidence=0.75
DefaultParams == [max_distance |-> 1, min_confidence |-> 75]

InitFilter ==
    /\ ScoreIdle /\ BridgeIdle /\ ConsIdle
    /\ f_pc = "start"
    /\ \E n1 \in EntityNames, n2 \in EntityNames :
       \E params \in [max_distance : DistanceOptions, min_confidence : ConfidenceOptions] :
          f_in = [e1 |-> [key |-> 1, entity_name |-> n1, entity_type |-> TypeRegister],
                  e2 |-> [key |-> 2, entity_name |-> n2, entity_type |-> TypeRegister],
                  params |-> params]
    /\ f_out = <<>>

\* the query's LETs and FILTERs for the pair (lines 203-237)
FilterPair ==
    /\ f_pc = "start"
    /\ LET norm1 == NormName(f_in.e1.entity_name)
           norm2 == NormName(f_in.e2.entity_name)
           lev_dist == Levenshtein(norm1, norm2)
       IN f_out' = [norm1 |-> norm1, norm2 |-> norm2, lev_dist |-> lev_dist,
                    confidence |-> Confidence(norm1, norm2, lev_dist),
                    confident |-> AtLeast(Confidence(norm1, norm2, lev_dist),
                                          f_in.params.min_confidence),
                    returned |-> Qualifies(f_in.e1, f_in.e2, f_in.params.max_distance,
                                           f_in.params.min_confidence)]
    /\ f_pc' = "filtered"
    /\ UNCHANGED f_in
    /\ UNCHANGED <<scoreVars, bridgeVars, consVars>>

NextFilter == FilterPair

SpecFilter == InitFilter /\ [][NextFilter]_vars

\* ------------------------------------------------------------------------
\* Properties of the candidate filters (under SpecFilter)
\* ------------------------------------------------------------------------
\* C29: with the default parameters (edit distance at most 1, confidence at
\* least 0.75) stage 2 never merges a pair whose shorter normalized name
\* has fewer than 4 characters, whether or not one name is a prefix of the
\* other: the confidence filter alone already rejects every such pair.
C29_ShortNamesNeverMergeByDefault ==
    (/\ f_pc = "filtered"
     /\ f_in.params = DefaultParams
     /\ Min2(Len(f_out.norm1), Len(f_out.norm2)) < 4) =>
        /\ ~f_out.returned
        /\ (f_out.lev_dist >= 1 /\ f_out.lev_dist <= 1) => ~f_out.confident

\* C29 witness: a pair of 3-character names at distance 1, neither a prefix
\* of the other, was turned down by the confidence filter
C29_Witness ==
    /\ f_pc = "filtered"
    /\ f_in.params = DefaultParams
    /\ Len(f_out.norm1) = 3 /\ Len(f_out.norm2) = 3
    /\ f_out.lev_dist = 1
    /\ ~StartsWith(f_out.norm1, f_out.norm2) /\ ~StartsWith(f_out.norm2, f_out.norm1)
    /\ ~f_out.confident /\ ~f_out.returned

\* the confidence filter on the value the statement gives: 1 - d/L for L of
\* at most 5, 0.6 * (1 - d/L) + 0.4 * ti/mt from 6 on (L the length of the
\* shorter name, ti the common tokens, mt the smaller token count)
StatedConfidenceAtLeast(norm1, norm2, d, threshold) ==
    LET L == Min2(Len(norm1), Len(norm2))
        ti == Cardinality(Range(TOKENS(norm1)) \cap Range(TOKENS(norm2)))
        mt == Min2(Len(TOKENS(norm1)), Len(TOKENS(norm2)))
    IN IF L <= 5 THEN 100 * (L - d) >= threshold * L
       ELSE 100 * (6 * (L - d) * mt + 4 * ti * L) >= threshold * 10 * L * mt

\* the computed confidence is the stated value
StatedConfidenceComputed(norm1, norm2, d, confidence) ==
    LET L == Min2(Len(norm1), Len(norm2))
        ti == Cardinality(Range(TOKENS(norm1)) \cap Range(TOKENS(norm2)))
        mt == Min2(Len(TOKENS(norm1)), Len(TOKENS(norm2)))
    IN IF L <= 5 THEN confidence.num * L = (L - d) * confidence.den
       ELSE confidence.num * 10 * L * mt = (6 * (L - d) * mt + 4 * ti * L) * confidence.den

\* the pair was filtered, its shorter name is not empty, and its edit
\* distance is between 1 and the bound
WithinDistance ==
    /\ f_pc = "filtered"
    /\ f_out.norm1 # <<>> /\ f_out.norm2 # <<>>
    /\ f_out.lev_dist >= 1 /\ f_out.lev_dist <= f_in.params.max_distance

====
